---- MODULE Spec2Model ----
(***************************************************************************)
(* The platformer of gmae.py (desktop variant) and "New folder/main.py"    *)
(* (web variant) as one state machine.  One step of the machine is one     *)
(* call of Game.update(dt, keys), i.e. one frame of main()'s loop.         *)
(*                                                                         *)
(* Numbers.  Positions are pygame Rect coordinates (integers).  Times are  *)
(* integer milliseconds (dt = clock.tick(FPS)/1000.0 is a whole number of  *)
(* milliseconds).  Velocities are fixed-point, in units of 1/VS pixel per  *)
(* frame; products with the float factors of the source are truncated     *)
(* toward zero but never lose their sign (a float product of non-zero      *)
(* factors is non-zero).  int(vy) of the player follows the IEEE double    *)
(* results of the repeated "vy += GRAVITY" where they differ from the      *)
(* exact decimal (IntVyFloat).                                             *)
(***************************************************************************)
EXTENDS Integers, Sequences, FiniteSets, TLC

(***************************************************************************)
(* CONFIG of both files (identical values)                                 *)
(***************************************************************************)
WIDTH == 1280
HEIGHT == 720
VS == 100 * 100                  \* velocity units per pixel
GRAVITY == 8000                  \* 0.8
JUMP_VELOCITY == -150000         \* -15.0
DOUBLE_JUMP_VELOCITY == -135000  \* -13.5
MOVE_SPEED == 65000              \* 6.5
TERMINAL_VELOCITY == 180000      \* 18.0
FRICTION_PCT == 88               \* FRICTION = 0.88
AIR_RESISTANCE_PCT == 96         \* AIR_RESISTANCE = 0.96
AIR_CONTROL_TENTHS == 7          \* AIR_CONTROL = 0.7

Variants == {"gmae", "main"}

(***************************************************************************)
(* Arithmetic helpers                                                      *)
(***************************************************************************)
Abs(a) == IF a < 0 THEN -a ELSE a
Max(a, b) == IF a >= b THEN a ELSE b
Min(a, b) == IF a <= b THEN a ELSE b
Sign(a) == IF a > 0 THEN 1 ELSE IF a < 0 THEN -1 ELSE 0

\* C / Python int(): truncation toward zero of a / b, b > 0
TruncDiv(a, b) == IF a >= 0 THEN a \div b ELSE -((-a) \div b)

\* float product v * (n/d) in fixed point: truncated, sign kept
MulFrac(v, n, d) ==
    LET q == TruncDiv(v * n, d)
    IN  IF q = 0 /\ v # 0 /\ n # 0 THEN Sign(v) * Sign(n) ELSE q

\* int(v) for a velocity v
IntVel(v) == TruncDiv(v, VS)

(***************************************************************************)
(* pygame.Rect                                                             *)
(***************************************************************************)
Rect(x, y, w, h) == [x |-> x, y |-> y, w |-> w, h |-> h]
Left(r) == r.x
Top(r) == r.y
Right(r) == r.x + r.w
Bottom(r) == r.y + r.h
CenterX(r) == r.x + (r.w \div 2)
CenterY(r) == r.y + (r.h \div 2)

\* Rect.colliderect: edges that only touch do not collide
CollideRect(a, b) ==
    /\ a.w > 0 /\ a.h > 0 /\ b.w > 0 /\ b.h > 0
    /\ a.x < b.x + b.w /\ b.x < a.x + a.w
    /\ a.y < b.y + b.h /\ b.y < a.y + a.h

\* Rect.inflate(dx, dy): grows around the centre, C integer halves
Inflate(r, dx, dy) ==
    Rect(r.x - TruncDiv(dx, 2), r.y - TruncDiv(dy, 2), r.w + dx, r.h + dy)

(***************************************************************************)
(* Game.setup_level: the fixed level of each variant                       *)
(***************************************************************************)
Platform(x, y, w, h) == Rect(x, y, w, h)

Platforms(v) ==
    IF v = "gmae"
    THEN << Platform(0, HEIGHT - 50, WIDTH, 50),
            Platform(120, HEIGHT - 160, 200, 20),
            Platform(400, HEIGHT - 240, 160, 20),
            Platform(640, HEIGHT - 320, 180, 20),
            Platform(900, HEIGHT - 200, 200, 20),
            Platform(1100, HEIGHT - 280, 120, 20),
            Platform(300, HEIGHT - 120, 80, 16),
            Platform(580, HEIGHT - 160, 60, 16),
            Platform(820, HEIGHT - 240, 70, 16) >>
    ELSE << Platform(0, HEIGHT - 50, WIDTH, 50),
            Platform(120, HEIGHT - 160, 220, 20),
            Platform(400, HEIGHT - 240, 180, 20),
            Platform(640, HEIGHT - 320, 200, 20),
            Platform(900, HEIGHT - 200, 220, 20),
            Platform(1100, HEIGHT - 280, 140, 20),
            Platform(300, HEIGHT - 120, 80, 16),
            Platform(580, HEIGHT - 160, 60, 16),
            Platform(820, HEIGHT - 240, 70, 16) >>

\* FakePlatform(x, y, w, h, delay): main.py only
FakePlatformDefs(v) ==
    IF v = "gmae" THEN << >>
    ELSE << [rect |-> Rect(220, HEIGHT - 200, 60, 16), delay |-> 800],
            [rect |-> Rect(750, HEIGHT - 260, 50, 16), delay |-> 700] >>

MagicWallRect == Rect(350, HEIGHT - 140, 70, 80)

\* Spike(x, y, w=32, h=26, popup, delay, move_pattern)
SpikeDef(x, y, popup, delay, move) ==
    [x |-> x, y |-> y, popup |-> popup, delay |-> delay, move |-> move]

SpikeDefs(v) ==
    IF v = "gmae"
    THEN << SpikeDef(180, HEIGHT - 178, FALSE, 0, "none"),
            SpikeDef(450, HEIGHT - 258, TRUE, 2000, "none"),
            SpikeDef(700, HEIGHT - 338, FALSE, 0, "horizontal"),
            SpikeDef(950, HEIGHT - 218, TRUE, 1000, "none"),
            SpikeDef(1150, HEIGHT - 298, FALSE, 0, "vertical") >>
    ELSE << SpikeDef(180, HEIGHT - 178, FALSE, 0, "none"),
            SpikeDef(450, HEIGHT - 258, TRUE, 1500, "none"),
            SpikeDef(700, HEIGHT - 338, FALSE, 0, "horizontal"),
            SpikeDef(950, HEIGHT - 218, TRUE, 1200, "none"),
            SpikeDef(580, HEIGHT - 178, TRUE, 800, "none") >>

\* FallingStone(x, top_y, trigger_range, warning_time)
StoneDef(x, y, lo, hi, warning_time) ==
    [x |-> x, y |-> y, lo |-> lo, hi |-> hi, warning_time |-> warning_time]

StoneDefs(v) ==
    IF v = "gmae"
    THEN << StoneDef(480, 50, 420, 540, 1500),
            StoneDef(680, 30, 600, 720, 1000),
            StoneDef(980, 40, 920, 1020, 2000) >>
    ELSE << StoneDef(480, 50, 420, 540, 1500),
            StoneDef(680, 30, 600, 720, 1200),
            StoneDef(980, 40, 920, 1020, 1000),
            StoneDef(350, 40, 300, 400, 800) >>

\* TeleportTrap(x, y, w, h, dest): main.py only
TeleportDefs(v) ==
    IF v = "gmae" THEN << >>
    ELSE << [rect |-> Rect(900, HEIGHT - 220, 30, 10),
             dest |-> [x |-> 600, y |-> HEIGHT - 340]] >>

\* FakeDoor(x, y): main.py only
FakeDoorRects(v) ==
    IF v = "gmae" THEN << >> ELSE << Rect(500, HEIGHT - 260, 40, 60) >>

\* Door(pos1, pos2)
DoorRect1 == Rect(1140, HEIGHT - 340, 40, 60)
DoorRect2 == Rect(160, HEIGHT - 220, 40, 60)

WinTrigger == Rect(WIDTH - 60, 0, 60, HEIGHT)

\* Player(60, HEIGHT-100): 32 x 44 in gmae.py, 30 x 50 in main.py
PlayerW(v) == IF v = "gmae" THEN 32 ELSE 30
PlayerH(v) == IF v = "gmae" THEN 44 ELSE 50

(***************************************************************************)
(* math.sin(move_timer * speed) * range of the two moving spikes, as the   *)
(* offset int(origin + sin(..) * range) - origin after n updates with a    *)
(* constant dt of 17 ms and of 33 ms (move_timer accumulated in doubles)   *)
(***************************************************************************)
SinHorizontal17 ==
  <<
    2, 4, 6, 8, 10, 12, 14, 16, 18, 20, 21, 23, 25, 27, 29, 31, 32, 34, 36,
    37, 39, 40, 42, 43, 45, 46, 47, 48, 50, 51, 52, 53, 54, 54, 55, 56, 57,
    57, 58, 58, 59, 59, 59, 59, 59, 59, 59, 59, 59, 59, 59, 58, 58, 57, 57,
    56, 56, 55, 54, 53, 52, 51, 50, 49, 48, 46, 45, 44, 42, 41, 39, 38, 36,
    35, 33, 31, 29, 28, 26, 24, 22, 20, 18, 16, 14, 12, 10, 8, 6, 4, 2, 0,
    -2, -4, -6, -8, -10, -12, -14, -16, -18, -20, -22, -24, -25, -27, -29,
    -31, -33, -34, -36, -38, -39, -41, -42, -44, -45, -46, -48, -49, -50,
    -51, -52, -53, -54, -55, -56, -57, -57, -58, -59, -59, -59, -60, -60,
    -60, -60, -60, -60, -60, -60, -60, -60, -59, -59, -59, -58, -57, -57,
    -56, -55, -54, -53, -52, -51, -50, -49, -48, -47, -45, -44, -42, -41,
    -39, -38, -36, -35, -33, -31, -29, -28, -26, -24, -22, -20, -18, -16,
    -14, -12, -10, -8, -6, -4, -2, 0, 2, 4, 6, 8, 10, 12, 14, 16, 18, 20,
    22, 24, 26, 27, 29, 31, 33, 34, 36, 38, 39, 41, 42, 43, 45, 46, 47, 49,
    50, 51, 52, 53, 54, 55, 55, 56, 57, 57, 58, 58, 59, 59, 59, 59, 59, 59,
    59, 59, 59, 59, 59, 58, 58, 57, 57, 56, 55, 55, 54, 53, 52, 51, 50, 49,
    47, 46, 45, 43, 42, 41, 39, 38, 36, 34, 33, 31, 29, 27, 26, 24, 22, 20,
    18, 16, 14, 12, 10, 8, 6, 4, 2, 0, -2, -4, -6, -8, -10, -12, -14, -16,
    -18, -20, -22, -24, -26, -28, -29, -31, -33, -35, -36, -38, -39, -41,
    -42, -44, -45, -47, -48, -49, -50, -51, -52, -53, -54, -55, -56, -57,
    -57, -58, -59, -59, -59, -60, -60, -60, -60, -60, -60, -60, -60, -60,
    -60, -59, -59, -59, -58, -57, -57, -56, -55, -54, -53, -52, -51, -50,
    -49, -48, -46, -45, -44, -42, -41, -39, -38, -36, -34, -33, -31, -29,
    -27, -25, -24, -22, -20, -18, -16, -14, -12, -10, -8, -6, -4, -2, 0, 2,
    4, 6, 8, 10, 12, 14, 16, 18, 20, 22, 24, 26, 28, 30, 31, 33, 35, 36,
    38, 39, 41, 42, 44, 45, 46, 48, 49, 50, 51, 52, 53, 54, 55, 56, 56, 57,
    57, 58, 58, 59, 59, 59, 59, 59, 59, 59, 59, 59, 59, 59, 58, 58, 57, 57,
    56, 55, 54, 54, 53, 52, 51, 50, 48, 47, 46, 45, 43, 42, 40, 39, 37, 36,
    34, 32, 31, 29, 27, 25, 23, 21, 20, 18, 16, 14, 12, 10, 8, 6, 4, 2, -1,
    -3, -5, -7, -9, -11, -13, -15, -17, -19, -21, -22, -24, -26, -28, -30,
    -32, -33, -35, -37, -38, -40, -41, -43, -44, -46, -47, -48, -49, -51,
    -52, -53, -54, -55, -55, -56, -57, -58, -58, -59, -59, -60, -60, -60,
    -60, -60, -60, -60, -60, -60, -60, -60, -59, -59, -58, -58, -57, -56,
    -56, -55, -54, -53, -52, -51, -50, -49, -47, -46, -45, -43, -42, -40,
    -39, -37, -36, -34, -32, -30, -29, -27, -25, -23, -21, -19, -17, -15,
    -13, -11, -9, -7, -5, -3, -1, 1, 3, 5, 7, 9, 11, 13, 15, 17, 19, 21,
    23, 24, 26, 28, 30, 32, 33, 35, 37, 38, 40, 41, 43, 44, 45, 47, 48, 49,
    50, 51, 52, 53, 54, 55, 56, 56, 57, 58, 58, 58, 59, 59, 59, 59, 59, 59,
    59, 59, 59, 59, 58, 58, 58, 57, 56, 56, 55, 54, 53, 52, 51, 50, 49, 48,
    47, 46, 44, 43, 41, 40, 38, 37, 35, 34, 32, 30, 28, 27, 25, 23, 21, 19,
    17, 15, 13
  >>

SinVertical17 ==
  <<
    0, 1, 2, 3, 3, 4, 5, 6, 6, 7, 8, 9, 9, 10, 11, 11, 12, 13, 13, 14, 15,
    15, 16, 17, 17, 18, 19, 19, 20, 20, 21, 21, 22, 22, 23, 23, 24, 24, 25,
    25, 25, 26, 26, 27, 27, 27, 27, 28, 28, 28, 28, 29, 29, 29, 29, 29, 29,
    29, 29, 29, 29, 29, 29, 29, 29, 29, 29, 29, 29, 29, 29, 28, 28, 28, 28,
    28, 27, 27, 27, 26, 26, 26, 25, 25, 24, 24, 23, 23, 22, 22, 21, 21, 20,
    20, 19, 19, 18, 17, 17, 16, 16, 15, 14, 14, 13, 12, 12, 11, 10, 9, 9,
    8, 7, 6, 6, 5, 4, 3, 3, 2, 1, 0, 0, -1, -2, -3, -3, -4, -5, -6, -6, -7,
    -8, -9, -9, -10, -11, -12, -12, -13, -14, -14, -15, -16, -16, -17, -18,
    -18, -19, -19, -20, -21, -21, -22, -22, -23, -23, -24, -24, -25, -25,
    -26, -26, -26, -27, -27, -27, -28, -28, -28, -29, -29, -29, -29, -30,
    -30, -30, -30, -30, -30, -30, -30, -30, -30, -30, -30, -30, -30, -30,
    -30, -30, -30, -30, -30, -29, -29, -29, -29, -29, -28, -28, -28, -27,
    -27, -27, -26, -26, -25, -25, -25, -24, -24, -23, -23, -22, -21, -21,
    -20, -20, -19, -19, -18, -17, -17, -16, -15, -15, -14, -13, -13, -12,
    -11, -11, -10, -9, -8, -8, -7, -6, -5, -5, -4, -3, -2, -2, -1, 0, 1, 1,
    2, 3, 4, 5, 5, 6, 7, 8, 8, 9, 10, 10, 11, 12, 13, 13, 14, 15, 15, 16,
    16, 17, 18, 18, 19, 19, 20, 21, 21, 22, 22, 23, 23, 24, 24, 24, 25, 25,
    26, 26, 26, 27, 27, 27, 28, 28, 28, 28, 29, 29, 29, 29, 29, 29, 29, 29,
    29, 29, 29, 29, 29, 29, 29, 29, 29, 29, 29, 29, 29, 28, 28, 28, 28, 27,
    27, 27, 26, 26, 26, 25, 25, 24, 24, 24, 23, 23, 22, 22, 21, 21, 20, 19,
    19, 18, 18, 17, 16, 16, 15, 15, 14, 13, 13, 12, 11, 10, 10, 9, 8, 8, 7,
    6, 5, 5, 4, 3, 2, 1, 1, 0, -1, -2, -2, -3, -4, -5, -5, -6, -7, -8, -8,
    -9, -10, -11, -11, -12, -13, -13, -14, -15, -15, -16, -17, -17, -18,
    -19, -19, -20, -20, -21, -21, -22, -23, -23, -24, -24, -25, -25, -25,
    -26, -26, -27, -27, -27, -28, -28, -28, -29, -29, -29, -29, -29, -30,
    -30, -30, -30, -30, -30, -30, -30, -30, -30, -30, -30, -30, -30, -30,
    -30, -30, -30, -30, -30, -29, -29, -29, -29, -28, -28, -28, -27, -27,
    -27, -26, -26, -26, -25, -25, -24, -24, -23, -23, -22, -22, -21, -21,
    -20, -19, -19, -18, -18, -17, -16, -16, -15, -14, -14, -13, -12, -12,
    -11, -10, -9, -9, -8, -7, -6, -6, -5, -4, -3, -3, -2, -1, 0, 0, 1, 2,
    3, 3, 4, 5, 6, 6, 7, 8, 9, 9, 10, 11, 12, 12, 13, 14, 14, 15, 16, 16,
    17, 17, 18, 19, 19, 20, 20, 21, 21, 22, 22, 23, 23, 24, 24, 25, 25, 26,
    26, 26, 27, 27, 27, 28, 28, 28, 28, 28, 29, 29, 29, 29, 29, 29, 29, 29,
    29, 29, 29, 29, 29, 29, 29, 29, 29, 29, 29, 29, 28, 28, 28, 28, 27, 27,
    27, 27, 26, 26, 25, 25, 25, 24, 24, 23, 23, 22, 22, 21, 21, 20, 20, 19,
    19, 18, 17, 17, 16, 15, 15, 14, 13, 13, 12, 11, 11, 10, 9, 9, 8, 7, 6,
    6, 5, 4, 3, 3, 2, 1, 0, -1, -1, -2, -3, -4, -4, -5, -6, -7, -7, -8, -9,
    -10, -10, -11, -12, -12, -13, -14, -14, -15, -16, -16, -17, -18
  >>

SinHorizontal33 ==
  <<
    3, 7, 11, 15, 19, 23, 26, 30, 33, 36, 39, 42, 45, 47, 50, 52, 54, 55,
    57, 58, 58, 59, 59, 59, 59, 59, 58, 57, 56, 55, 53, 51, 49, 46, 44, 41,
    38, 35, 32, 28, 25, 21, 17, 14, 10, 6, 2, -2, -6, -10, -14, -18, -21,
    -25, -29, -32, -35, -39, -42, -44, -47, -49, -52, -53, -55, -57, -58,
    -59, -60, -60, -60, -60, -60, -60, -59, -58, -56, -55, -53, -51, -49,
    -46, -44, -41, -38, -35, -31, -28, -24, -21, -17, -13, -9, -5, -1, 3,
    7, 11, 14, 18, 22, 26, 29, 32, 36, 39, 42, 44, 47, 49, 51, 53, 55, 56,
    57, 58, 59, 59, 59, 59, 59, 58, 57, 56, 55, 53, 51, 49, 47, 44, 42, 39,
    36, 32, 29, 26, 22, 18, 14, 11, 7, 3, -1, -5, -9, -13, -17, -21, -24,
    -28, -31, -35, -38, -41, -44, -46, -49, -51, -53, -55, -56, -58, -59,
    -60, -60, -60, -60, -60, -60, -59, -58, -57, -55, -53, -52, -49, -47,
    -44, -42, -39, -35, -32, -29, -25, -21, -18, -14, -10, -6, -2, 2, 6,
    10, 14, 17, 21, 25, 28, 32, 35, 38, 41, 44, 46, 49, 51, 53, 55, 56, 57,
    58, 59, 59, 59, 59, 59, 58, 58, 57, 55, 54, 52, 50, 47, 45, 42, 39, 36,
    33, 30, 26, 23, 19, 15, 11, 7, 3, -1, -4, -8, -12, -16, -20, -24, -27,
    -31, -34, -37, -40, -43, -46, -48, -51, -53, -55, -56, -58, -59, -59,
    -60, -60, -60, -60, -60, -59, -58, -57, -56, -54, -52, -50, -47, -45,
    -42, -39, -36, -33, -29, -26, -22, -18, -15, -11, -7, -3, 1, 5, 9, 13,
    17, 20, 24, 28, 31, 34, 38, 41, 43, 46, 48, 51, 52, 54, 56, 57, 58, 59,
    59, 59, 59, 59, 59, 58, 57, 55, 54, 52, 50, 48, 45, 43, 40, 37, 34, 30,
    27, 23, 20, 16, 12, 8, 4, 0, -4, -8, -12, -15, -19, -23, -27, -30, -33,
    -37, -40, -43, -45, -48, -50, -52, -54, -56, -57, -58, -59, -60, -60,
    -60, -60, -60, -59, -58, -57, -56, -54, -52, -50, -48, -45, -43, -40,
    -37, -33, -30, -27, -23, -19, -15, -12, -8, -4, 0, 4, 8, 12, 16, 20,
    23, 27, 30, 34, 37, 40, 43, 45, 48, 50, 52, 54, 55, 57, 58, 59, 59, 59,
    59, 59, 59, 58, 57, 56, 54, 52, 51, 48, 46, 43, 41, 38, 34, 31, 28, 24,
    20, 17, 13, 9, 5, 1, -3, -7, -11, -15, -18, -22, -26, -29, -33, -36,
    -39, -42, -45, -47, -50, -52, -54, -56, -57, -58, -59, -60, -60, -60,
    -60, -60, -59, -59, -58, -56, -55, -53, -51, -48, -46, -43, -40, -37,
    -34, -31, -27, -24, -20, -16, -12, -8, -4, 0, 3, 7, 11, 15, 19, 23, 26,
    30, 33, 36, 39, 42, 45, 47, 50, 52, 54, 55, 57, 58, 58, 59, 59, 59, 59,
    59, 58, 57, 56, 55, 53, 51, 49, 46, 44, 41, 38, 35, 32, 28, 25, 21, 17,
    14, 10, 6, 2, -2, -6, -10, -14, -18, -21, -25, -29, -32, -35, -39, -42,
    -44, -47, -49, -52, -53, -55, -57, -58, -59, -60, -60, -60, -60, -60,
    -60, -59, -58, -56, -55, -53, -51, -49, -46, -44, -41, -38, -35, -31,
    -28, -24, -21, -17, -13, -9, -5, -1, 3, 7, 11, 14, 18, 22, 26, 29, 32,
    36, 39, 42, 44, 47, 49, 51, 53, 55, 56, 57, 58, 59, 59, 59, 59, 59, 58,
    57, 56, 55, 53, 51, 49, 47, 44, 42, 39, 36, 32, 29, 26, 22, 18, 14, 11,
    7, 3, -1, -5, -9, -13, -17, -21, -24, -28, -31, -35, -38, -41, -44,
    -46, -49, -51, -53, -55, -56, -58, -59, -60
  >>

SinVertical33 ==
  <<
    1, 2, 4, 5, 7, 8, 10, 11, 12, 14, 15, 16, 17, 19, 20, 21, 22, 23, 24,
    25, 25, 26, 27, 27, 28, 28, 29, 29, 29, 29, 29, 29, 29, 29, 29, 29, 28,
    28, 28, 27, 26, 26, 25, 24, 23, 22, 21, 20, 19, 18, 17, 16, 14, 13, 12,
    10, 9, 8, 6, 5, 3, 2, 0, -1, -3, -4, -6, -7, -9, -10, -11, -13, -14,
    -15, -17, -18, -19, -20, -21, -22, -23, -24, -25, -26, -27, -27, -28,
    -29, -29, -30, -30, -30, -30, -30, -30, -30, -30, -30, -30, -30, -29,
    -29, -28, -28, -27, -26, -26, -25, -24, -23, -22, -21, -20, -18, -17,
    -16, -15, -13, -12, -11, -9, -8, -6, -5, -3, -2, 0, 1, 3, 4, 5, 7, 8,
    10, 11, 13, 14, 15, 16, 18, 19, 20, 21, 22, 23, 24, 25, 25, 26, 27, 27,
    28, 28, 29, 29, 29, 29, 29, 29, 29, 29, 29, 29, 28, 28, 28, 27, 26, 26,
    25, 24, 23, 22, 21, 20, 19, 18, 17, 16, 14, 13, 12, 10, 9, 7, 6, 5, 3,
    2, 0, -1, -3, -4, -6, -7, -9, -10, -12, -13, -14, -16, -17, -18, -19,
    -20, -21, -22, -23, -24, -25, -26, -27, -27, -28, -29, -29, -30, -30,
    -30, -30, -30, -30, -30, -30, -30, -30, -30, -29, -29, -28, -28, -27,
    -26, -25, -25, -24, -23, -22, -21, -20, -18, -17, -16, -15, -13, -12,
    -11, -9, -8, -6, -5, -3, -2, 0, 1, 3, 4, 6, 7, 8, 10, 11, 13, 14, 15,
    16, 18, 19, 20, 21, 22, 23, 24, 25, 25, 26, 27, 27, 28, 28, 29, 29, 29,
    29, 29, 29, 29, 29, 29, 29, 28, 28, 28, 27, 26, 26, 25, 24, 23, 22, 21,
    20, 19, 18, 17, 15, 14, 13, 12, 10, 9, 7, 6, 4, 3, 1, 0, -1, -3, -4,
    -6, -7, -9, -10, -12, -13, -14, -16, -17, -18, -19, -20, -22, -23, -24,
    -24, -25, -26, -27, -28, -28, -29, -29, -30, -30, -30, -30, -30, -30,
    -30, -30, -30, -30, -30, -29, -29, -28, -28, -27, -26, -25, -25, -24,
    -23, -22, -21, -19, -18, -17, -16, -14, -13, -12, -10, -9, -8, -6, -5,
    -3, -2, 0, 1, 3, 4, 6, 7, 9, 10, 11, 13, 14, 15, 17, 18, 19, 20, 21,
    22, 23, 24, 25, 26, 26, 27, 27, 28, 28, 29, 29, 29, 29, 29, 29, 29, 29,
    29, 29, 28, 28, 27, 27, 26, 26, 25, 24, 23, 22, 21, 20, 19, 18, 17, 15,
    14, 13, 11, 10, 9, 7, 6, 4, 3, 1, 0, -2, -3, -5, -6, -7, -9, -10, -12,
    -13, -14, -16, -17, -18, -19, -20, -22, -23, -24, -25, -25, -26, -27,
    -28, -28, -29, -29, -30, -30, -30, -30, -30, -30, -30, -30, -30, -30,
    -30, -29, -29, -28, -28, -27, -26, -25, -24, -24, -23, -22, -20, -19,
    -18, -17, -16, -14, -13, -12, -10, -9, -7, -6, -5, -3, -2, 0, 1, 3, 4,
    6, 7, 9, 10, 11, 13, 14, 15, 17, 18, 19, 20, 21, 22, 23, 24, 25, 26,
    26, 27, 27, 28, 28, 29, 29, 29, 29, 29, 29, 29, 29, 29, 29, 28, 28, 27,
    27, 26, 26, 25, 24, 23, 22, 21, 20, 19, 18, 17, 15, 14, 13, 11, 10, 9,
    7, 6, 4, 3, 1, 0, -2, -3, -5, -6, -8, -9, -10, -12, -13, -14, -16, -17,
    -18, -19, -21, -22, -23, -24, -25, -25, -26, -27, -28, -28, -29, -29,
    -30, -30, -30, -30, -30, -30, -30, -30, -30, -30, -30, -29, -29, -28,
    -28, -27, -26, -25, -24, -24, -23, -22, -20, -19, -18, -17, -16, -14,
    -13, -12, -10, -9, -7, -6, -4, -3, -1, 0, 1, 3, 4, 6, 7
  >>

SinLen == Len(SinHorizontal17)

SpikeOffset(move, dtms, n) ==
    IF move = "horizontal"
    THEN (IF dtms = 17 THEN SinHorizontal17[n] ELSE SinHorizontal33[n])
    ELSE (IF dtms = 17 THEN SinVertical17[n] ELSE SinVertical33[n])

(***************************************************************************)
(* Player                                                                  *)
(***************************************************************************)
COYOTE_TIME == 100              \* coyote window, 0.1 s in both files
JUMP_BUFFER_TIME_GMAE == 100    \* self.jump_buffer_time = 0.1
JUMP_BUFFER_TIME_MAIN == 150    \* self.jump_buffer = 0.15

\* Player.__init__
NewPlayer(v) ==
    [ rect |-> Rect(60, HEIGHT - 100, PlayerW(v), PlayerH(v)),
      vx |-> 0, vy |-> 0,
      on_ground |-> FALSE,
      can_double_jump |-> (v = "main"),
      has_double_jumped |-> FALSE,
      coyote |-> 0,
      jump_buffer |-> 0,
      dust_timer |-> 0,
      dead |-> FALSE, win |-> FALSE ]

\* the keys of one frame: a subset of {"L", "R", "J", "RST", "ESC"}
MoveInputGmae(keys) ==
    (IF "R" \in keys THEN 1 ELSE 0) - (IF "L" \in keys THEN 1 ELSE 0)
MoveInputMain(keys) ==
    IF "R" \in keys THEN 1 ELSE IF "L" \in keys THEN -1 ELSE 0

\* gmae.py Player.control
ControlGmae(p, keys, dtms) ==
    LET mi     == MoveInputGmae(keys)
        target == mi * MOVE_SPEED
        \* (target_vx - vx) * accel * control_strength
        delta  == IF p.on_ground
                  THEN MulFrac(target - p.vx, 8, 10)
                  ELSE MulFrac(MulFrac(target - p.vx, 4, 10),
                               AIR_CONTROL_TENTHS, 10)
        vx1    == p.vx + delta
        vx2    == IF p.on_ground
                  THEN (IF mi = 0 THEN MulFrac(vx1, FRICTION_PCT, 100) ELSE vx1)
                  ELSE MulFrac(vx1, AIR_RESISTANCE_PCT, 100)
        jb1    == IF "J" \in keys THEN JUMP_BUFFER_TIME_GMAE ELSE p.jump_buffer
        p1     == [p EXCEPT !.vx = vx2, !.jump_buffer = jb1]
        p2     == IF jb1 > 0 /\ p.coyote > 0
                  THEN [p1 EXCEPT !.vy = JUMP_VELOCITY,
                                  !.on_ground = FALSE,
                                  !.can_double_jump = TRUE,
                                  !.coyote = 0,
                                  !.jump_buffer = 0]
                  ELSE IF jb1 > 0 /\ p.can_double_jump /\ ~p.has_double_jumped
                  THEN [p1 EXCEPT !.vy = DOUBLE_JUMP_VELOCITY,
                                  !.has_double_jumped = TRUE,
                                  !.can_double_jump = FALSE,
                                  !.jump_buffer = 0]
                  ELSE p1
    IN  [p2 EXCEPT
           !.jump_buffer = IF p2.jump_buffer > 0 THEN p2.jump_buffer - dtms
                           ELSE p2.jump_buffer,
           !.coyote = IF p2.coyote > 0 THEN p2.coyote - dtms ELSE p2.coyote]

\* main.py Player.control
ControlMain(p, keys, dtms) ==
    IF p.dead \/ p.win THEN p
    ELSE
    LET mx  == MoveInputMain(keys)
        vx1 == p.vx + (IF p.on_ground THEN mx * VS
                       ELSE mx * AIR_CONTROL_TENTHS * (VS \div 10))
        jb1 == IF p.jump_buffer > 0 THEN p.jump_buffer - dtms ELSE p.jump_buffer
        cy1 == IF p.coyote > 0 THEN p.coyote - dtms ELSE p.coyote
        p1  == [p EXCEPT !.vx = vx1, !.jump_buffer = jb1, !.coyote = cy1]
    IN  IF "J" \notin keys THEN p1
        ELSE IF p1.on_ground \/ p1.coyote > 0
        THEN [p1 EXCEPT !.vy = JUMP_VELOCITY,
                        !.on_ground = FALSE,
                        !.coyote = 0,
                        !.can_double_jump = TRUE,
                        !.has_double_jumped = FALSE]
        ELSE IF p1.can_double_jump /\ ~p1.has_double_jumped
        THEN [p1 EXCEPT !.vy = DOUBLE_JUMP_VELOCITY,
                        !.can_double_jump = FALSE,
                        !.has_double_jumped = TRUE]
        ELSE [p1 EXCEPT !.jump_buffer = JUMP_BUFFER_TIME_MAIN]

ControlRepeatsDoubleJump(v, p, keys, dtms) ==
    IF "J" \in keys /\ ~p.on_ground /\ p.has_double_jumped
    THEN [p EXCEPT !.vy = DOUBLE_JUMP_VELOCITY]
    ELSE IF v = "gmae" THEN ControlGmae(p, keys, dtms)
    ELSE ControlMain(p, keys, dtms)
ControlKeepsDoubleJump(v, p, keys, dtms) ==
    LET q == IF v = "gmae" THEN ControlGmae(p, keys, dtms)
             ELSE ControlMain(p, keys, dtms)
    IN  [q EXCEPT !.has_double_jumped = FALSE,
                  !.can_double_jump = p.can_double_jump \/ q.can_double_jump]
Control(v, p, keys, dtms) ==
    IF v = "gmae" THEN ControlGmae(p, keys, dtms) ELSE ControlMain(p, keys, dtms)

\* int(self.vy) of gmae.py's player.  vy is -15.0, -13.5 or 0 plus a number
\* of additions of 0.8 in doubles; four of these sums fall just short of the
\* whole number the exact decimal gives (-10.999999999999996 for -11.0, ...).
IntVyFloat(vy) ==
    CASE vy = -110000 -> -10
      [] vy = -70000  -> -6
      [] vy = -30000  -> -2
      [] vy = 80000   -> 7
      [] OTHER        -> IntVel(vy)

HorizontalCollisionsNone(p, plats, i) == p

\* the horizontal collision loop of Player.physics (same in both files)
RECURSIVE HorizontalCollisions(_, _, _)
HorizontalCollisions(p, plats, i) ==
    IF i > Len(plats) THEN p
    ELSE IF ~CollideRect(p.rect, plats[i])
    THEN HorizontalCollisions(p, plats, i + 1)
    ELSE HorizontalCollisions(
           IF p.vx > 0
           THEN [p EXCEPT !.rect.x = Left(plats[i]) - p.rect.w, !.vx = 0]
           ELSE IF p.vx < 0
           THEN [p EXCEPT !.rect.x = Right(plats[i]), !.vx = 0]
           ELSE p,
           plats, i + 1)

\* the vertical collision loop of gmae.py; hard is set by a landing with
\* vy > 8 (dust particles)
RECURSIVE VerticalCollisionsGmae(_, _, _)
VerticalCollisionsGmae(ph, plats, i) ==
    IF i > Len(plats) THEN ph
    ELSE IF ~CollideRect(ph.p.rect, plats[i])
    THEN VerticalCollisionsGmae(ph, plats, i + 1)
    ELSE LET p == ph.p
             q == plats[i]
         IN  VerticalCollisionsGmae(
               IF p.vy > 0
               THEN [p |-> [p EXCEPT !.rect.y = Top(q) - p.rect.h,
                                     !.vy = 0,
                                     !.on_ground = TRUE,
                                     !.has_double_jumped = FALSE,
                                     !.can_double_jump = TRUE],
                     hard |-> ph.hard \/ p.vy > 8 * VS,
                     landed |-> Append(ph.landed, i)]
               ELSE IF p.vy < 0
               THEN [ph EXCEPT !.p = [p EXCEPT !.rect.y = Bottom(q),
                                               !.vy = 0]]
               ELSE ph,
               plats, i + 1)

\* the vertical collision loop of main.py, with the buffered jump
RECURSIVE VerticalCollisionsMain(_, _, _)
VerticalCollisionsMain(ph, plats, i) ==
    IF i > Len(plats) THEN ph
    ELSE IF ~CollideRect(ph.p.rect, plats[i])
    THEN VerticalCollisionsMain(ph, plats, i + 1)
    ELSE LET p == ph.p
             q == plats[i]
         IN  VerticalCollisionsMain(
               IF p.vy > 0
               THEN [p |-> IF p.jump_buffer > 0
                           THEN [p EXCEPT !.rect.y = Top(q) - p.rect.h,
                                          !.vy = JUMP_VELOCITY,
                                          !.on_ground = FALSE,
                                          !.jump_buffer = 0,
                                          !.can_double_jump = TRUE,
                                          !.has_double_jumped = FALSE]
                           ELSE [p EXCEPT !.rect.y = Top(q) - p.rect.h,
                                          !.vy = 0,
                                          !.on_ground = TRUE],
                     hard |-> ph.hard,
                     landed |-> Append(ph.landed, i)]
               ELSE IF p.vy < 0
               THEN [ph EXCEPT !.p = [p EXCEPT !.rect.y = Bottom(q),
                                               !.vy = 0]]
               ELSE ph,
               plats, i + 1)

\* gmae.py Player.physics: gravity (only off the ground) and the horizontal
\* step self.rect.x += int(self.vx)
GravityStepGmae(p) ==
    [p EXCEPT !.vy = IF p.on_ground THEN p.vy
                     ELSE Min(p.vy + GRAVITY, TERMINAL_VELOCITY),
              !.rect.x = p.rect.x + IntVel(p.vx)]

\* self.rect.y += int(self.vy); self.on_ground = False
VerticalStepGmae(p) ==
    [p EXCEPT !.rect.y = p.rect.y + IntVyFloat(p.vy), !.on_ground = FALSE]

\* coyote time: the timer restarts on leaving the ground and on the ground
CoyoteGmae(was_on_ground, p) ==
    IF (was_on_ground /\ ~p.on_ground) \/ p.on_ground
    THEN [p EXCEPT !.coyote = COYOTE_TIME] ELSE p

\* keep player in bounds
ClampLeft(p) == [p EXCEPT !.rect.x = Max(0, p.rect.x)]
ClampRight(p) ==
    [p EXCEPT !.rect.x = IF Right(p.rect) > WIDTH
                         THEN WIDTH - p.rect.w ELSE p.rect.x]
ClampTop(p) ==
    IF Top(p.rect) < 0
    THEN [p EXCEPT !.rect.y = 0, !.vy = Max(0, p.vy)] ELSE p
ClampBottom(p) ==
    IF Bottom(p.rect) > HEIGHT
    THEN [p EXCEPT !.rect.y = HEIGHT - p.rect.h, !.vy = 0, !.on_ground = TRUE]
    ELSE p
KeepInBounds(p) == ClampBottom(ClampTop(ClampRight(ClampLeft(p))))

\* dust when moving on the ground: the timer and whether dust was added
WalkDust(p, dtms) ==
    LET moving == p.on_ground /\ Abs(p.vx) > 2 * VS
    IN  IF ~moving THEN [p |-> p, dust |-> FALSE]
        ELSE IF p.dust_timer + dtms > 100
        THEN [p |-> [p EXCEPT !.dust_timer = 0], dust |-> TRUE]
        ELSE [p |-> [p EXCEPT !.dust_timer = p.dust_timer + dtms],
              dust |-> FALSE]

\* the end of Player.physics, after the vertical collision loop
PhysicsEndGmae(was_on_ground, ph, dtms) ==
    LET wd == WalkDust(KeepInBounds(CoyoteGmae(was_on_ground, ph.p)), dtms)
    IN  [p |-> wd.p, dust |-> ph.hard \/ wd.dust, landed |-> ph.landed]

\* gmae.py Player.physics.  The result is the player, whether particles
\* were added (dust) and the indices of the platforms landed on.
PhysicsGmae(p, plats, dtms) ==
    PhysicsEndGmae(
        p.on_ground,
        VerticalCollisionsGmae(
            [p |-> VerticalStepGmae(
                       HorizontalCollisions(GravityStepGmae(p), plats, 1)),
             hard |-> FALSE, landed |-> << >>],
            plats, 1),
        dtms)

\* main.py Player.physics.  rect.x += vx and rect.y += vy store the float
\* sum truncated toward zero.
PhysicsMain(p, plats, dtms) ==
    IF p.dead \/ p.win THEN [p |-> p, dust |-> FALSE, landed |-> << >>]
    ELSE
    LET vx1 == IF p.on_ground THEN MulFrac(p.vx, FRICTION_PCT, 100)
               ELSE MulFrac(p.vx, AIR_RESISTANCE_PCT, 100)
        vx2 == Max(-MOVE_SPEED, Min(MOVE_SPEED, vx1))
        vy1 == Min(p.vy + GRAVITY, TERMINAL_VELOCITY)
        p1  == [p EXCEPT !.vx = vx2, !.vy = vy1,
                         !.rect.x = TruncDiv(p.rect.x * VS + vx2, VS)]
        p2  == HorizontalCollisions(p1, plats, 1)
        p3  == [p2 EXCEPT !.rect.y = TruncDiv(p2.rect.y * VS + p2.vy, VS),
                          !.on_ground = FALSE]
        ph4 == VerticalCollisionsMain(
                 [p |-> p3, hard |-> FALSE, landed |-> << >>], plats, 1)
        p4  == ph4.p
        p5  == IF p.on_ground /\ ~p4.on_ground
               THEN [p4 EXCEPT !.coyote = COYOTE_TIME] ELSE p4
    IN  [p |-> p5, dust |-> FALSE, landed |-> ph4.landed]

Physics(v, p, plats, dtms) ==
    IF v = "gmae" THEN PhysicsGmae(p, plats, dtms) ELSE PhysicsMain(p, plats, dtms)

(***************************************************************************)
(* ParticleSystem and Camera.  The particle list is kept as the longest    *)
(* life any live particle can still have (0: the list is empty); the life  *)
(* of a particle is random.uniform(..) below the maxima given here.  Of    *)
(* the camera only the shake is kept; its smoothed position is output.     *)
(***************************************************************************)
NewParticles == 0
NewCamera == [shake_intensity |-> 0, shake_duration |-> 0]

ExplosionLife(v) == IF v = "gmae" THEN 1200 ELSE 1000
DustLife(v) == IF v = "gmae" THEN 800 ELSE 600

\* ParticleSystem.add_explosion / add_dust
AddParticles(life, maxlife) == Max(life, maxlife)
\* ParticleSystem.update
ParticlesUpdate(life, dtms) == Max(0, life - dtms)

\* Camera.add_shake
AddShake(cam, intensity, duration) ==
    [shake_intensity |-> Max(cam.shake_intensity, intensity),
     shake_duration |-> Max(cam.shake_duration, duration)]
\* Camera.update
CameraUpdate(cam, dtms) ==
    IF cam.shake_duration > 0
    THEN LET d == cam.shake_duration - dtms
         IN  [shake_intensity |-> IF d <= 0 THEN 0 ELSE cam.shake_intensity,
              shake_duration |-> d]
    ELSE cam

(***************************************************************************)
(* MagicWall                                                               *)
(***************************************************************************)
NewMagicWall ==
    [alive |-> TRUE, cracked |-> FALSE, health |-> 2,
     crack_timer |-> 0, shake_timer |-> 0]

\* MagicWall.hit (the caller has checked alive)
MagicWallHit(w) ==
    IF ~w.alive THEN w
    ELSE IF w.health - 1 <= 0
    THEN [w EXCEPT !.health = w.health - 1, !.shake_timer = 300,
                   !.alive = FALSE]
    ELSE [w EXCEPT !.health = w.health - 1, !.shake_timer = 300,
                   !.cracked = TRUE, !.crack_timer = 800]

\* MagicWall.update
MagicWallUpdate(w, dtms) ==
    [w EXCEPT !.shake_timer = IF w.shake_timer > 0 THEN w.shake_timer - dtms
                              ELSE w.shake_timer,
              !.crack_timer = IF w.cracked /\ w.crack_timer > 0
                              THEN w.crack_timer - dtms ELSE w.crack_timer]

(***************************************************************************)
(* FakePlatform and TeleportTrap (main.py)                                 *)
(***************************************************************************)
NewFakePlatform == [active |-> TRUE, triggered |-> FALSE, disappear_timer |-> 0]

\* FakePlatform.trigger
FakePlatformTrigger(f, def) ==
    IF f.active /\ ~f.triggered
    THEN [f EXCEPT !.triggered = TRUE, !.disappear_timer = def.delay]
    ELSE f

\* FakePlatform.update
FakePlatformUpdate(f, dtms) ==
    IF f.triggered
    THEN LET t == f.disappear_timer - dtms
         IN  [f EXCEPT !.disappear_timer = t,
                       !.active = IF t <= 0 THEN FALSE ELSE f.active]
    ELSE f

TELEPORT_COOLDOWN_MAX == 3000   \* self.cooldown_max = 3.0
NewTeleportTrap == [cooldown |-> 0]

\* TeleportTrap.update
TeleportTrapUpdate(t, dtms) ==
    IF t.cooldown > 0 THEN [t EXCEPT !.cooldown = t.cooldown - dtms] ELSE t

(***************************************************************************)
(* Spike                                                                   *)
(***************************************************************************)
SPIKE_W == 32
SPIKE_H == 26

\* Spike.__init__; n counts the updates (move_timer = n * dt)
NewSpike(def) ==
    [rect |-> Rect(def.x, def.y, SPIKE_W, SPIKE_H),
     active |-> ~def.popup, timer |-> def.delay, n |-> 0]

\* Spike.update
SpikeUpdate(sp, def, dtms) ==
    LET t1   == IF def.popup /\ ~sp.active THEN sp.timer - dtms ELSE sp.timer
        act1 == sp.active \/ (def.popup /\ ~sp.active /\ t1 <= 0)
        n1   == sp.n + 1
    IN  [ rect |-> IF def.move = "horizontal"
                   THEN [sp.rect EXCEPT !.x = def.x + SpikeOffset(def.move, dtms, n1)]
                   ELSE IF def.move = "vertical"
                   THEN [sp.rect EXCEPT !.y = def.y + SpikeOffset(def.move, dtms, n1)]
                   ELSE sp.rect,
          active |-> act1, timer |-> t1, n |-> n1 ]

\* a get_danger_zone that would not look at active
GetDangerZoneOfInactive(sp) ==
    << [x |-> CenterX(sp.rect), y |-> Top(sp.rect)],
       [x |-> Left(sp.rect) + 4, y |-> Bottom(sp.rect) - 4],
       [x |-> Right(sp.rect) - 4, y |-> Bottom(sp.rect) - 4] >>

\* Spike.get_danger_zone: << >> stands for None
GetDangerZone(sp) ==
    IF ~sp.active THEN << >>
    ELSE << [x |-> CenterX(sp.rect), y |-> Top(sp.rect)],
            [x |-> Left(sp.rect) + 4, y |-> Bottom(sp.rect) - 4],
            [x |-> Right(sp.rect) - 4, y |-> Bottom(sp.rect) - 4] >>

\* Game.point_in_triangle.  a, b and c = 1 - a - b are doubles in the source.
\* a and b are correctly rounded quotients of whole numbers, so their signs
\* are exact, and so is the sign of c wherever the exact value of c is not 0
\* (it is then at least 1 / |denominator| away from 0).  Where a + b = 1
\* exactly, the double 1 - a - b is 0 or a rounding error of either sign.
\* NegativeC lists the fractions a = p / q (in lowest terms, q <= 50) for
\* which the doubles give (1 - p/q) - (q - p)/q < 0.
RECURSIVE Gcd(_, _)
Gcd(m, n) == IF n = 0 THEN m ELSE Gcd(n, m % n)

NegativeC ==
    { <<4,5>>, <<5,6>>, <<9,10>>, <<2,11>>, <<9,11>>, <<5,12>>, <<7,12>>,
      <<3,13>>, <<8,13>>, <<10,13>>, <<12,13>>, <<5,14>>, <<9,14>>,
      <<13,14>>, <<13,15>>, <<14,15>>, <<5,17>>, <<6,17>>, <<11,17>>,
      <<12,17>>, <<11,18>>, <<11,20>>, <<9,22>>, <<13,22>>, <<21,22>>,
      <<14,23>>, <<18,23>>, <<22,23>>, <<7,24>>, <<17,24>>, <<23,24>>,
      <<8,25>>, <<14,25>>, <<17,25>>, <<23,25>>, <<21,26>>, <<25,26>>,
      <<19,28>>, <<25,28>>, <<27,28>>, <<14,29>>, <<15,29>>, <<20,29>>,
      <<23,29>>, <<26,29>>, <<28,29>>, <<7,30>>, <<23,30>>, <<29,30>>,
      <<13,31>>, <<18,31>>, <<22,31>>, <<26,31>>, <<30,31>>, <<14,33>>,
      <<19,33>>, <<23,33>>, <<28,33>>, <<31,33>>, <<32,33>>, <<23,34>>,
      <<25,34>>, <<6,35>>, <<27,35>>, <<29,35>>, <<29,36>>, <<31,36>>,
      <<3,37>>, <<7,37>>, <<11,37>>, <<15,37>>, <<20,37>>, <<22,37>>,
      <<24,37>>, <<26,37>>, <<28,37>>, <<30,37>>, <<32,37>>, <<34,37>>,
      <<36,37>>, <<17,38>>, <<21,38>>, <<25,38>>, <<29,38>>, <<33,38>>,
      <<37,38>>, <<14,39>>, <<25,39>>, <<35,39>>, <<27,40>>, <<31,40>>,
      <<37,40>>, <<13,41>>, <<14,41>>, <<22,41>>, <<23,41>>, <<27,41>>,
      <<28,41>>, <<32,41>>, <<33,41>>, <<37,41>>, <<38,41>>, <<23,42>>,
      <<31,42>>, <<7,43>>, <<18,43>>, <<25,43>>, <<28,43>>, <<33,43>>,
      <<36,43>>, <<38,43>>, <<41,43>>, <<19,44>>, <<25,44>>, <<31,44>>,
      <<37,44>>, <<43,44>>, <<16,45>>, <<29,45>>, <<43,45>>, <<19,46>>,
      <<27,46>>, <<35,46>>, <<37,46>>, <<43,46>>, <<45,46>>, <<13,47>>,
      <<27,47>>, <<30,47>>, <<34,47>>, <<37,47>>, <<41,47>>, <<44,47>>,
      <<45,47>>, <<17,48>>, <<23,48>>, <<25,48>>, <<31,48>>, <<37,48>>,
      <<43,48>>, <<13,49>>, <<23,49>>, <<26,49>>, <<31,49>>, <<36,49>>,
      <<40,49>>, <<41,49>>, <<45,49>>, <<46,49>>, <<17,50>>, <<27,50>>,
      <<33,50>>, <<39,50>> }

\* the sign test c >= 0 of the source, from the exact numerators
CNonNegative(na, nb, den) ==
    IF den - na - nb # 0 THEN (den - na - nb) * Sign(den) > 0
    ELSE << Abs(na) \div Gcd(Abs(na), Abs(den)),
            Abs(den) \div Gcd(Abs(na), Abs(den)) >> \notin NegativeC

PointInTriangle(pt, tri) ==
    LET x1 == tri[1].x  y1 == tri[1].y
        x2 == tri[2].x  y2 == tri[2].y
        x3 == tri[3].x  y3 == tri[3].y
        denominator == (y2 - y3) * (x1 - x3) + (x3 - x2) * (y1 - y3)
        na == (y2 - y3) * (pt.x - x3) + (x3 - x2) * (pt.y - y3)
        nb == (y3 - y1) * (pt.x - x3) + (x1 - x3) * (pt.y - y3)
    IN  IF denominator = 0 THEN FALSE
        ELSE /\ na * Sign(denominator) >= 0
             /\ nb * Sign(denominator) >= 0
             /\ CNonNegative(na, nb, denominator)

\* the five sample points of Game.point_in_triangle_collision
SamplePoints(r) ==
    << [x |-> Left(r), y |-> Top(r)], [x |-> Right(r), y |-> Top(r)],
       [x |-> Left(r), y |-> Bottom(r)], [x |-> Right(r), y |-> Bottom(r)],
       [x |-> CenterX(r), y |-> CenterY(r)] >>

\* Game.point_in_triangle_collision
PointInTriangleCollision(r, tri) ==
    \E i \in 1..5 : PointInTriangle(SamplePoints(r)[i], tri)

(***************************************************************************)
(* FallingStone.  random.uniform(..) is an input of the session: rnd.spin  *)
(* is the angular velocity drawn when a stone drops, rnd.kick the          *)
(* horizontal velocity gmae.py adds at a bounce.                           *)
(***************************************************************************)
STONE_SIZE == 45
MAX_BOUNCES == 2
STONE_GRAVITY == 12000          \* GRAVITY * 1.5

\* FallingStone.__init__
NewStone(def) ==
    [rect |-> Rect(def.x, def.y, STONE_SIZE, STONE_SIZE),
     vy |-> 0, vx |-> 0, angular_velocity |-> 0,
     dropped |-> FALSE, settled |-> FALSE, warning |-> FALSE,
     warning_timer |-> def.warning_time, bounces |-> 0]

\* FallingStone.trigger_check
TriggerCheck(st, def, player_x) ==
    IF ~st.dropped /\ ~st.warning /\ def.lo <= player_x /\ player_x <= def.hi
    THEN [st EXCEPT !.warning = TRUE]
    ELSE st

\* the first part of FallingStone.update: the warning countdown
StoneCountdownEarly(st, dtms, rnd) ==
    IF st.warning /\ ~st.dropped
    THEN [st EXCEPT !.warning_timer = st.warning_timer - dtms,
                    !.dropped = TRUE, !.vy = 0, !.angular_velocity = rnd.spin]
    ELSE st
StoneCountdown(st, dtms, rnd) ==
    IF st.warning /\ ~st.dropped
    THEN LET t == st.warning_timer - dtms
         IN  IF t <= 0
             THEN [st EXCEPT !.warning_timer = t, !.dropped = TRUE, !.vy = 0,
                             !.angular_velocity = rnd.spin]
             ELSE [st EXCEPT !.warning_timer = t]
    ELSE st

\* index of the first platform the rectangle collides with, 0 if none
RECURSIVE FirstCollision(_, _, _)
FirstCollision(r, plats, i) ==
    IF i > Len(plats) THEN 0
    ELSE IF CollideRect(r, plats[i]) THEN i
    ELSE FirstCollision(r, plats, i + 1)

\* gmae.py FallingStone.update; the result is the stone and whether
\* particles were added
StoneUpdateGmae(st0, dtms, plats, rnd) ==
    LET st == StoneCountdown(st0, dtms, rnd)
    IN  IF ~(st.dropped /\ ~st.settled) THEN [s |-> st, impact |-> FALSE]
        ELSE
        \* vy += GRAVITY * 1.5 in doubles: a sum that is 18 in decimals is
        \* 17.999999999999996, which min() leaves alone and int() makes 17
        LET sum == st.vy + STONE_GRAVITY
            vy1 == IF sum = TERMINAL_VELOCITY THEN TERMINAL_VELOCITY - 1
                   ELSE Min(sum, TERMINAL_VELOCITY)
            r1  == [st.rect EXCEPT !.x = st.rect.x + IntVel(st.vx),
                                   !.y = st.rect.y + IntVel(vy1)]
            i   == FirstCollision(r1, plats, 1)
            st1 == [st EXCEPT !.vy = vy1, !.rect = r1]
        IN  IF i = 0 THEN [s |-> st1, impact |-> FALSE]
            ELSE IF st.bounces < MAX_BOUNCES
            THEN [s |-> [st1 EXCEPT !.rect.y = Top(plats[i]) - r1.h,
                                    !.vy = MulFrac(-vy1, 4, 10),
                                    !.vx = st.vx + rnd.kick,
                                    !.angular_velocity =
                                        MulFrac(st.angular_velocity, 7, 10),
                                    !.bounces = st.bounces + 1],
                  impact |-> TRUE]
            ELSE LET vx2 == MulFrac(st.vx, 8, 10)
                     av2 == MulFrac(st.angular_velocity, 9, 10)
                 IN  [s |-> [st1 EXCEPT !.rect.y = Top(plats[i]) - r1.h,
                                        !.vy = 0, !.vx = vx2,
                                        !.angular_velocity = av2,
                                        !.settled = (Abs(vx2) < VS \div 10
                                                     /\ Abs(av2) < VS \div 10)],
                      impact |-> TRUE]

\* the platform loop of main.py FallingStone.update (no break)
RECURSIVE StoneCollisionsMain(_, _, _)
StoneCollisionsMain(si, plats, i) ==
    IF i > Len(plats) THEN si
    ELSE LET st  == si.s
             q   == plats[i]
             si1 == IF CollideRect(st.rect, q) /\ st.vy > 0
                    THEN LET vy2  == MulFrac(-st.vy, 4, 10)
                             b2   == st.bounces + 1
                             stop == b2 >= MAX_BOUNCES \/ Abs(vy2) < 2 * VS
                         IN  [s |-> [st EXCEPT
                                       !.rect.y = Top(q) - st.rect.h,
                                       !.vy = IF stop THEN 0 ELSE vy2,
                                       !.vx = IF stop THEN 0
                                              ELSE MulFrac(st.vx, 7, 10),
                                       !.angular_velocity =
                                           IF stop THEN 0
                                           ELSE MulFrac(st.angular_velocity, 7, 10),
                                       !.bounces = b2,
                                       !.settled = st.settled \/ stop],
                              \* count = int(abs(vy) * 1.5) particles
                              impact |-> si.impact \/ Abs(vy2) * 3 >= 2 * VS]
                    ELSE si
         IN  StoneCollisionsMain(si1, plats, i + 1)

\* main.py FallingStone.update
StoneUpdateMain(st0, dtms, plats, rnd) ==
    LET st == StoneCountdown(st0, dtms, rnd)
    IN  IF ~(st.dropped /\ ~st.settled) THEN [s |-> st, impact |-> FALSE]
        ELSE
        LET vy1 == st.vy + (STONE_GRAVITY * dtms) \div 1000
            st1 == [st EXCEPT !.vy = vy1,
                              !.rect.y = st.rect.y + IntVel(vy1),
                              !.rect.x = st.rect.x + IntVel(st.vx)]
        IN  StoneCollisionsMain([s |-> st1, impact |-> FALSE], plats, 1)

StoneUpdate(v, st, dtms, plats, rnd) ==
    IF v = "gmae" THEN StoneUpdateGmae(st, dtms, plats, rnd)
    ELSE StoneUpdateMain(st, dtms, plats, rnd)

(***************************************************************************)
(* Door.  rect is the active rectangle: self.rect in gmae.py,              *)
(* self.active_rect in main.py.                                            *)
(***************************************************************************)
TROLL_COOLDOWN == 2000          \* self.troll_cooldown = 2.0 (main.py)

NewDoor ==
    [rect |-> DoorRect1, trolled_once |-> FALSE, open |-> FALSE,
     troll_cooldown |-> 0]

\* Door.maybe_troll: whether the door is relocated by this call
TrollFires(v, d, prect) ==
    IF v = "gmae"
    THEN /\ ~d.trolled_once
         /\ CollideRect(prect, Inflate(d.rect, 60, 20))
         /\ CenterY(prect) <= CenterY(d.rect)
    ELSE /\ ~(d.trolled_once \/ d.open \/ d.troll_cooldown > 0)
         /\ CollideRect(prect, Inflate(DoorRect1, 60, 60))

\* Door.maybe_troll
MaybeTrollForgets(v, d, prect) ==
    IF TrollFires(v, d, prect)
    THEN [d EXCEPT !.rect = DoorRect2,
                   !.troll_cooldown = IF v = "main" THEN TROLL_COOLDOWN
                                      ELSE d.troll_cooldown]
    ELSE d
MaybeTroll(v, d, prect) ==
    IF TrollFires(v, d, prect)
    THEN [d EXCEPT !.rect = DoorRect2, !.trolled_once = TRUE,
                   !.troll_cooldown = IF v = "main" THEN TROLL_COOLDOWN
                                      ELSE d.troll_cooldown]
    ELSE d

\* Door.set_open
SetOpen(d) == [d EXCEPT !.open = TRUE]

\* Door.update
DoorUpdate(v, d, dtms) ==
    IF v = "main" /\ d.troll_cooldown > 0
    THEN [d EXCEPT !.troll_cooldown = d.troll_cooldown - dtms]
    ELSE d

\* Door.check_win_collision
CheckWinCollisionNoOpen(v, d, prect) ==
    IF v = "gmae"
    THEN /\ CollideRect(prect, Inflate(d.rect, -5, -5))
         /\ CenterY(prect) <= CenterY(d.rect) + 10
    ELSE CollideRect(prect, d.rect)
CheckWinCollision(v, d, prect) ==
    IF v = "gmae"
    THEN /\ d.open
         /\ CollideRect(prect, Inflate(d.rect, -5, -5))
         /\ CenterY(prect) <= CenterY(d.rect) + 10
    ELSE d.open /\ CollideRect(prect, d.rect)

\* FakeDoor.check_collision (main.py)
FakeDoorCollision(fd, prect) == CollideRect(prect, Inflate(fd, -10, -10))

(***************************************************************************)
(* Game.  A world W is the Game object: variant v, state, attempts and     *)
(* the objects it owns.                                                    *)
(***************************************************************************)
SeqMap(Op(_, _), seq) == [i \in 1..Len(seq) |-> Op(seq[i], i)]

NewFakePlatformAt(def, i) == NewFakePlatform
NewTeleportTrapAt(def, i) == NewTeleportTrap
NewSpikeAt(def, i) == NewSpike(def)
NewStoneAt(def, i) == NewStone(def)

\* Game.setup_level and the part of Game.__init__ / reset_game around it
NewLevel(v, attempts) ==
    [ v |-> v,
      state |-> "PLAYING",
      attempts |-> attempts,
      player |-> NewPlayer(v),
      wall |-> NewMagicWall,
      fakes |-> SeqMap(NewFakePlatformAt, FakePlatformDefs(v)),
      traps |-> SeqMap(NewTeleportTrapAt, TeleportDefs(v)),
      spikes |-> SeqMap(NewSpikeAt, SpikeDefs(v)),
      stones |-> SeqMap(NewStoneAt, StoneDefs(v)),
      door |-> NewDoor,
      camera |-> NewCamera,
      particles |-> NewParticles ]

\* Game.__init__: attempts = 0 in gmae.py, 1 in main.py
NewGame(v) == NewLevel(v, IF v = "gmae" THEN 0 ELSE 1)

\* Game.reset_game: everything but attempts (and best_time) is rebuilt
ResetGameKeepsWall(W) == [NewLevel(W.v, W.attempts) EXCEPT !.wall = W.wall]
ResetGame(W) == NewLevel(W.v, W.attempts)

\* Game.kill_player
KillPlayerKeepsAttempts(W) ==
    [W EXCEPT !.state = "DEAD",
              !.player.dead = TRUE,
              !.particles = AddParticles(W.particles, ExplosionLife(W.v)),
              !.camera = AddShake(W.camera, 12, 800)]
KillPlayer(W) ==
    [W EXCEPT !.state = "DEAD",
              !.player.dead = TRUE,
              !.attempts = W.attempts + 1,
              !.particles = AddParticles(W.particles, ExplosionLife(W.v)),
              !.camera = AddShake(W.camera, 12, 800)]

\* Game.win_game
WinGame(W) ==
    [W EXCEPT !.state = "WON",
              !.player.win = TRUE,
              !.particles = AddParticles(W.particles, ExplosionLife(W.v)),
              !.camera = AddShake(W.camera, 6, 500)]

\* handle_collisions: the magic wall
WallContact(W) ==
    W.wall.alive /\ CollideRect(W.player.rect, Inflate(MagicWallRect, 5, 5))

WallCheck(W) ==
    IF ~WallContact(W) THEN W
    ELSE LET w1 == MagicWallHit(W.wall)
             destroyed == ~w1.alive
         IN  [W EXCEPT
                !.wall = w1,
                !.particles = AddParticles(W.particles, ExplosionLife(W.v)),
                !.camera =
                   IF W.v = "gmae"
                   THEN (IF destroyed THEN AddShake(W.camera, 8, 500)
                         ELSE AddShake(W.camera, 4, 300))
                   ELSE (IF destroyed THEN AddShake(W.camera, 6, 400)
                         ELSE AddShake(W.camera, 3, 200))]

\* handle_collisions: the fake platforms (main.py)
FakeLanding(W, i) ==
    /\ W.fakes[i].active /\ ~W.fakes[i].triggered
    /\ CollideRect(W.player.rect, FakePlatformDefs(W.v)[i].rect)
    /\ W.player.vy > 0

FakePlatformCheck(W) ==
    [W EXCEPT
       !.fakes = [i \in 1..Len(W.fakes) |->
                    IF FakeLanding(W, i)
                    THEN FakePlatformTrigger(W.fakes[i], FakePlatformDefs(W.v)[i])
                    ELSE W.fakes[i]],
       !.camera = IF \E i \in 1..Len(W.fakes) : FakeLanding(W, i)
                  THEN AddShake(W.camera, 1, 100) ELSE W.camera]

\* TeleportTrap.check_teleport
TeleportFires(W, i) ==
    /\ W.traps[i].cooldown <= 0
    /\ CollideRect(W.player.rect, TeleportDefs(W.v)[i].rect)

\* handle_collisions that would move the player and leave its velocity
TeleportCheckKeepsVelocity(W) ==
    IF ~(\E i \in 1..Len(W.traps) : TeleportFires(W, i)) THEN W
    ELSE LET i == CHOOSE j \in 1..Len(W.traps) :
                    /\ TeleportFires(W, j)
                    /\ \A k \in 1..(j - 1) : ~TeleportFires(W, k)
             dest == TeleportDefs(W.v)[i].dest
         IN  [W EXCEPT
                !.traps[i].cooldown = TELEPORT_COOLDOWN_MAX,
                !.player.rect.x = dest.x,
                !.player.rect.y = dest.y,
                !.particles = AddParticles(W.particles, ExplosionLife(W.v)),
                !.camera = AddShake(W.camera, 3, 300)]

\* handle_collisions: the teleport traps (main.py); the first trap that
\* fires ends the loop
TeleportCheck(W) ==
    IF ~(\E i \in 1..Len(W.traps) : TeleportFires(W, i)) THEN W
    ELSE LET i == CHOOSE j \in 1..Len(W.traps) :
                    /\ TeleportFires(W, j)
                    /\ \A k \in 1..(j - 1) : ~TeleportFires(W, k)
             dest == TeleportDefs(W.v)[i].dest
         IN  [W EXCEPT
                !.traps[i].cooldown = TELEPORT_COOLDOWN_MAX,
                !.player.rect.x = dest.x,
                !.player.rect.y = dest.y,
                !.player.vx = 0,
                !.player.vy = 0,
                !.particles = AddParticles(W.particles, ExplosionLife(W.v)),
                !.camera = AddShake(W.camera, 3, 300)]

\* the three kill conditions of handle_collisions
FakeDoorKills(W) ==
    \E i \in 1..Len(FakeDoorRects(W.v)) :
        FakeDoorCollision(FakeDoorRects(W.v)[i], W.player.rect)

SpikeHit(prect, sps) ==
    \E i \in 1..Len(sps) :
        /\ GetDangerZone(sps[i]) # << >>
        /\ PointInTriangleCollision(prect, GetDangerZone(sps[i]))

SpikeKills(W) == SpikeHit(W.player.rect, W.spikes)

StoneKills(W) ==
    \E i \in 1..Len(W.stones) : CollideRect(W.stones[i].rect, W.player.rect)

\* handle_collisions: door troll, win trigger, win
DoorCheck(W) ==
    LET d1 == MaybeTroll(W.v, W.door, W.player.rect)
        d2 == IF CollideRect(W.player.rect, WinTrigger) THEN SetOpen(d1) ELSE d1
        W2 == [W EXCEPT
                 !.door = d2,
                 !.particles = IF d1 # W.door
                               THEN AddParticles(W.particles, ExplosionLife(W.v))
                               ELSE W.particles]
    IN  IF CheckWinCollision(W.v, d2, W.player.rect) THEN WinGame(W2) ELSE W2

\* Game.handle_collisions
HandleCollisionsNoStateGuard(W) ==
    LET W1 == WallCheck(W)
        W2 == IF W.v = "main" THEN TeleportCheck(FakePlatformCheck(W1)) ELSE W1
    IN  IF FakeDoorKills(W2) \/ SpikeKills(W2) \/ StoneKills(W2)
        THEN KillPlayer(W2)
        ELSE DoorCheck(W2)
\* a handle_collisions that would look at the door before the hazards
HandleCollisionsDoorFirst(W) ==
    IF W.state # "PLAYING" THEN W
    ELSE
    LET W1 == WallCheck(W)
        W2 == IF W.v = "main" THEN TeleportCheck(FakePlatformCheck(W1)) ELSE W1
        W3 == DoorCheck(W2)
    IN  IF W3.state = "WON" THEN W3
        ELSE IF FakeDoorKills(W2) \/ SpikeKills(W2) \/ StoneKills(W2)
        THEN KillPlayer(W2)
        ELSE W3
HandleCollisions(W) ==
    IF W.state # "PLAYING" THEN W
    ELSE
    LET W1 == WallCheck(W)
        W2 == IF W.v = "main" THEN TeleportCheck(FakePlatformCheck(W1)) ELSE W1
    IN  IF FakeDoorKills(W2) \/ SpikeKills(W2) \/ StoneKills(W2)
        THEN KillPlayer(W2)
        ELSE DoorCheck(W2)

(***************************************************************************)
(* Game.update, the part after the reset and quit keys                     *)
(***************************************************************************)
\* main.py: "within d pixels of the player" (player_x is taken once, before
\* the physics step)
Near(r, player_x, d) == Abs(CenterX(r) - player_x) < d

\* the per-frame collision list
PlatformsForCollisionKeepsWall(W, player_x) ==
    IF W.v = "gmae" THEN Platforms(W.v) \o << MagicWallRect >>
    ELSE LET near(r) == Near(r, player_x, 800)
             active(i) == /\ W.fakes[i].active /\ ~W.fakes[i].triggered
                          /\ near(FakePlatformDefs(W.v)[i].rect)
             fakeRects == [i \in 1..Len(W.fakes) |-> FakePlatformDefs(W.v)[i].rect]
             idx == SelectSeq([i \in 1..Len(W.fakes) |-> i], active)
         IN  SelectSeq(Platforms(W.v), near)
             \o [k \in 1..Len(idx) |-> fakeRects[idx[k]]]
             \o (IF near(MagicWallRect) THEN << MagicWallRect >> ELSE << >>)
PlatformsForCollision(W, player_x) ==
    IF W.v = "gmae"
    THEN Platforms(W.v) \o (IF W.wall.alive THEN << MagicWallRect >> ELSE << >>)
    ELSE LET near(r) == Near(r, player_x, 800)
             active(i) == /\ W.fakes[i].active /\ ~W.fakes[i].triggered
                          /\ near(FakePlatformDefs(W.v)[i].rect)
             fakeRects == [i \in 1..Len(W.fakes) |-> FakePlatformDefs(W.v)[i].rect]
             idx == SelectSeq([i \in 1..Len(W.fakes) |-> i], active)
         IN  SelectSeq(Platforms(W.v), near)
             \o [k \in 1..Len(idx) |-> fakeRects[idx[k]]]
             \o (IF W.wall.alive /\ near(MagicWallRect)
                 THEN << MagicWallRect >> ELSE << >>)

\* the updates of the hazards in one frame, after the physics step of the
\* player p (W.player is the player before it): spikes, stones, magic wall
\* and door; the result tells whether a stone added particles
HazardUpdates(W, plats, player_x, dtms, rnd) ==
    LET v == W.v
        spikes1 == [i \in 1..Len(W.spikes) |->
                      IF v = "gmae" \/ Near(W.spikes[i].rect, player_x, 800)
                      THEN SpikeUpdate(W.spikes[i], SpikeDefs(v)[i], dtms)
                      ELSE W.spikes[i]]
        \* gmae.py checks the trigger with the player's centre after the
        \* physics step, and drops the stones on self.platforms
        stoneRes == [i \in 1..Len(W.stones) |->
                      IF v = "gmae"
                      THEN StoneUpdateGmae(
                             TriggerCheck(W.stones[i], StoneDefs(v)[i],
                                          CenterX(W.player.rect)),
                             dtms, Platforms(v), rnd)
                      ELSE IF Near(W.stones[i].rect, player_x, 1000)
                      THEN StoneUpdateMain(
                             TriggerCheck(W.stones[i], StoneDefs(v)[i], player_x),
                             dtms, plats, rnd)
                      ELSE [s |-> W.stones[i], impact |-> FALSE]]
        impact == \E i \in 1..Len(W.stones) : stoneRes[i].impact
    IN  [W EXCEPT
           !.spikes = spikes1,
           !.stones = [i \in 1..Len(W.stones) |-> stoneRes[i].s],
           !.wall = IF v = "gmae" \/ Near(MagicWallRect, player_x, 800)
                    THEN MagicWallUpdate(W.wall, dtms) ELSE W.wall,
           !.door = DoorUpdate(v, W.door, dtms),
           !.particles = IF impact
                         THEN AddParticles(W.particles, ExplosionLife(v))
                         ELSE W.particles]

\* main.py: fake platforms and teleport traps are updated before the
\* collision list is built
EarlyUpdates(W, player_x, dtms) ==
    IF W.v = "gmae" THEN W
    ELSE [W EXCEPT
            !.fakes = [i \in 1..Len(W.fakes) |->
                         IF Near(FakePlatformDefs(W.v)[i].rect, player_x, 800)
                         THEN FakePlatformUpdate(W.fakes[i], dtms)
                         ELSE W.fakes[i]],
            !.traps = [i \in 1..Len(W.traps) |->
                         IF Near(TeleportDefs(W.v)[i].rect, player_x, 800)
                         THEN TeleportTrapUpdate(W.traps[i], dtms)
                         ELSE W.traps[i]]]

(***************************************************************************)
(* The inputs of the frame loop.  The keys of each frame come from the     *)
(* keyboard; the model lets a session follow one of the play-throughs      *)
(* below (the keys held, frame by frame, from the start of the program)    *)
(* and leave it at any frame for up to MaxFree frames of freely chosen     *)
(* keys.  dt and the values random.uniform returns are those of env.       *)
(***************************************************************************)
MaxFree == 1

Seg(keys, n) == [keys |-> keys, n |-> n]

None == {}
R == {"R"}
L == {"L"}
J == {"J"}
RJ == {"R", "J"}
LJ == {"L", "J"}
RST == {"RST"}
ESC == {"ESC"}

FreeKeys == {None, R, L, J, RJ, LJ, RST, ESC, {"RST", "ESC"}, {"J", "ESC"}}

\* gmae.py: over the high ledges to the door (it relocates), on to the
\* win-trigger zone, back along the ground to the relocated door; then a
\* new session
ClimbGmae ==
    << Seg(R, 100), Seg(RJ, 1), Seg(R, 15), Seg(RJ, 1), Seg(R, 30),
       Seg(RJ, 1), Seg(R, 30), Seg(RJ, 1), Seg(R, 50), Seg(L, 200),
       Seg(RJ, 1), Seg(R, 24), Seg(None, 6), Seg(RST, 1), Seg(R, 8) >>

\* gmae.py: along the ground to the win-trigger zone first, then back and
\* over the high ledges to the door
OpenFirstGmae ==
    << Seg(R, 196), Seg(L, 98), Seg(R, 3), Seg(RJ, 1), Seg(R, 15),
       Seg(RJ, 1), Seg(R, 30), Seg(RJ, 1), Seg(R, 30), Seg(RJ, 1),
       Seg(R, 34) >>

\* main.py: a double jump under the final ledge reaches the door (it
\* relocates), on to the win-trigger zone, back to the relocated door;
\* then a new session
ClimbMain ==
    << Seg(R, 176), Seg(RJ, 1), Seg(R, 12), Seg(RJ, 1), Seg(R, 10),
       Seg(L, 175), Seg(RJ, 1), Seg(R, 30), Seg(None, 6), Seg(RST, 1),
       Seg(R, 8) >>

\* main.py: along the ground to the win-trigger zone first, then from the
\* right onto the final ledge and into the door
OpenFirstMain ==
    << Seg(R, 208), Seg(J, 1), Seg(None, 14), Seg(LJ, 1), Seg(L, 34) >>

\* main.py: the double jump under the final ledge, then back at once, clear
\* of the win-trigger zone, to the relocated door while it is still closed
ClosedDoorMain ==
    << Seg(R, 176), Seg(RJ, 1), Seg(R, 12), Seg(RJ, 1), Seg(L, 179),
       Seg(RJ, 1), Seg(R, 30), Seg(None, 6) >>

\* both: from the spawn point onto the first ledge and into its spike; the
\* session stays dead for a while and is then reset
IntoSpike ==
    << Seg(None, 5), Seg(RJ, 1), Seg(R, 34), Seg(None, 6), Seg(RST, 1),
       Seg(R, 8) >>

\* both: jump, double jump and a third press in the air; then the jump key
\* held over three frames
Jumps ==
    << Seg(None, 5), Seg(J, 1), Seg(None, 6), Seg(J, 1), Seg(None, 4),
       Seg(J, 1), Seg(None, 34), Seg(J, 3), Seg(None, 40) >>

\* main.py: a long jump from the spawn point onto the first fake platform,
\* then standing on it
OntoFakeMain ==
    << Seg(RJ, 32), Seg(None, 30) >>

\* main.py: along the ground past the ledge of the teleport trap, a double
\* jump back onto it from the right, a hop over its spike and down onto
\* the trap; from its destination back into the trap within the cooldown,
\* and on into the spike
TeleportMain ==
    << Seg(R, 183), Seg(None, 10), Seg(LJ, 1), Seg(L, 6), Seg(LJ, 1),
       Seg(L, 16), Seg(LJ, 1), Seg(L, 1), Seg(None, 35), Seg(RJ, 8),
       Seg(R, 52), Seg(None, 10) >>

\* gmae.py: over the first ledge onto the second one and into its pop-up
\* spike before it is up, then waiting there
PopupGmae ==
    << Seg(R, 5), Seg(J, 5), Seg(RJ, 20), Seg(R, 30), Seg(RJ, 30),
       Seg(None, 45) >>

\* main.py: in jumps over the wall to the second ledge, through its pop-up
\* spike and into the fake door
PopupMain ==
    << Seg(RJ, 60), Seg(None, 2), Seg(R, 20), Seg(None, 5) >>

\* gmae.py: over the high ledges to the door (it relocates), on to the
\* win-trigger zone, back along the ground and in jumps from the right
\* onto the first ledge, into its spike and the open door at once
KillAtDoorGmae ==
    << Seg(R, 100), Seg(RJ, 1), Seg(R, 15), Seg(RJ, 1), Seg(R, 30),
       Seg(RJ, 1), Seg(R, 30), Seg(RJ, 1), Seg(R, 53), Seg(L, 132),
       Seg(LJ, 60), Seg(None, 4) >>

\* main.py: in jumps over the wall and the second ledge onto the third
\* one, and from there in a double jump up to the first stone while it is
\* still warning
UnderStoneMain ==
    << Seg(RJ, 60), Seg(None, 2), Seg(R, 16), Seg(L, 2), Seg(R, 1),
       Seg(J, 3), Seg(None, 3), Seg(R, 23), Seg(J, 1), Seg(R, 1),
       Seg(L, 16), Seg(LJ, 12), Seg(None, 3), Seg(RJ, 1), Seg(None, 4) >>

\* both: jump and double jump, then a further press in the air n frames
\* before the 48th frame, in which the player is about to land (it lands
\* in the 51st frame in gmae.py, in the 52nd in main.py)
PressBeforeLanding(n) ==
    << Seg(None, 5), Seg(J, 1), Seg(None, 6), Seg(J, 1), Seg(None, 34 - n),
       Seg(J, 1), Seg(None, 14 + n) >>

\* gmae.py: onto the first ledge, back off its left end and a jump in the
\* sixth frame of the fall
OffLedgeGmae ==
    << Seg(None, 2), Seg(RJ, 1), Seg(R, 20), Seg(L, 13), Seg(LJ, 1),
       Seg(L, 10) >>

\* both: to the left from the spawn point, to the edge of the screen and on
LeftEdge ==
    << Seg(L, 45) >>

\* main.py: along the ground through the magic wall to below the third
\* stone, back to the left end of the ground and half off it, and rest
AwayFromStoneMain ==
    << Seg(R, 188), Seg(L, 165), Seg(None, 60) >>

Scripts(v) ==
    IF v = "gmae"
    THEN << ClimbGmae, OpenFirstGmae, IntoSpike, Jumps, PopupGmae,
            KillAtDoorGmae, PressBeforeLanding(0), PressBeforeLanding(2),
            PressBeforeLanding(5), OffLedgeGmae, LeftEdge >>
    ELSE << ClimbMain, OpenFirstMain, IntoSpike, Jumps, ClosedDoorMain,
            OntoFakeMain, TeleportMain, PopupMain, UnderStoneMain,
            PressBeforeLanding(0), PressBeforeLanding(2),
            PressBeforeLanding(5), LeftEdge, AwayFromStoneMain >>

Envs ==
    { [dt |-> 17, kick |-> 0, spin |-> 0],
      [dt |-> 33, kick |-> -15000, spin |-> 40000] }

VARIABLES
    variant,    \* which file runs: "gmae" or "main"
    running,    \* main(): the loop variable
    state,      \* Game.state
    attempts,   \* Game.attempts
    player, wall, fakes, traps, spikes, stones, door, camera, particles,
    env,        \* dt and the random draws of this run
    inp,        \* where the keyboard is in its play-through
    last,       \* what the last frame did (for the properties)
    query       \* a call of Game.point_in_triangle on its own, and its result

vars == << variant, running, state, attempts, player, wall, fakes, traps,
           spikes, stones, door, camera, particles, env, inp, last, query >>

\* the Game object
World ==
    [ v |-> variant, state |-> state, attempts |-> attempts,
      player |-> player, wall |-> wall, fakes |-> fakes, traps |-> traps,
      spikes |-> spikes, stones |-> stones, door |-> door,
      camera |-> camera, particles |-> particles ]

SetWorld(W) ==
    /\ state' = W.state
    /\ attempts' = W.attempts
    /\ player' = W.player
    /\ wall' = W.wall
    /\ fakes' = W.fakes
    /\ traps' = W.traps
    /\ spikes' = W.spikes
    /\ stones' = W.stones
    /\ door' = W.door
    /\ camera' = W.camera
    /\ particles' = W.particles

\* no call of Game.point_in_triangle outside the frame loop
NoQuery ==
    [point |-> [x |-> 0, y |-> 0], triangle |-> << >>, done |-> FALSE,
     result |-> FALSE]

NoFrame ==
    [kind |-> "init", keys |-> {}, plats |-> << >>, landed |-> << >>,
     before |-> NewPlayer("gmae"), after |-> NewPlayer("gmae"),
     jumps |-> 0, djumps |-> 0, touched |-> FALSE, pressed |-> -1,
     air |-> -1]

\* Player.control assigned self.vy = JUMP_VELOCITY (p: the player before
\* the call, pc: after it); control changes vy in the jump branches only
JumpSet(p, pc) == pc.vy = JUMP_VELOCITY /\ p.vy # JUMP_VELOCITY

\* Player.control assigned self.vy = DOUBLE_JUMP_VELOCITY
DoubleJumpSet(p, pc) ==
    pc.vy = DOUBLE_JUMP_VELOCITY /\ p.vy # DOUBLE_JUMP_VELOCITY

\* Player.physics put the player on a platform (or, in gmae.py, on the
\* bottom of the screen)
Landing(ph) == ph.landed # << >> \/ ph.p.on_ground

\* main.py Player.physics: the buffered jump fired at the landing
BufferedJumpSet(ph) == ph.landed # << >> /\ ph.p.vy = JUMP_VELOCITY

\* the jump key was down in this call of Player.control and no jump of
\* either kind was made: the press is left to the jump buffer
BufferedPress(p, pc, keys) ==
    "J" \in keys /\ ~JumpSet(p, pc) /\ ~DoubleJumpSet(p, pc)

\* the time in ms from the last buffered press to Player.physics of the
\* frame (-1: none, or the player has landed since), after a frame that
\* followed the frame f
SincePress(f, p, pc, keys, dtms) ==
    IF state = "PLAYING" /\ BufferedPress(p, pc, keys)
    THEN 0
    ELSE IF f.pressed < 0 \/ f.landed # << >> THEN -1
    ELSE Min(f.pressed + dtms, 2 * JUMP_BUFFER_TIME_MAIN)

\* the player stands on one of the rectangles: its bottom is the top of
\* the rectangle and they share a stretch of x
Supported(p, plats) ==
    \E i \in 1..Len(plats) :
        /\ Bottom(p.rect) = Top(plats[i])
        /\ Left(p.rect) < Right(plats[i])
        /\ Right(p.rect) > Left(plats[i])

\* at the end of Player.physics the player is on the ground: on_ground is
\* set, or the player stands on a platform (on_ground is cleared in the
\* frames in which the standing player does not sink into it)
Grounded(p, plats) == p.on_ground \/ Supported(p, plats)

\* the time in ms since the first frame that ended with the player off the
\* ground, no jump made in it or since; 0 on the ground, -1 after a jump
\* and before the first landing
SinceLeaving(f, p, pc, ph, plats, dtms) ==
    IF JumpSet(p, pc) \/ BufferedJumpSet(ph) THEN -1
    ELSE IF Grounded(ph.p, plats) THEN 0
    ELSE IF f.air < 0 THEN -1
    ELSE Min(f.air + dtms, 2 * COYOTE_TIME)

\* how often vy was set to JUMP_VELOCITY / DOUBLE_JUMP_VELOCITY since the
\* last landing, after a frame that began with the count n
JumpsSinceLanding(n, p, pc, ph) ==
    IF Landing(ph) THEN (IF BufferedJumpSet(ph) THEN 1 ELSE 0)
    ELSE n + (IF JumpSet(p, pc) THEN 1 ELSE 0)
DoubleJumpsSinceLanding(n, p, pc, ph) ==
    IF Landing(ph) THEN 0
    ELSE n + (IF DoubleJumpSet(p, pc) THEN 1 ELSE 0)

InitWith(scriptsOf(_)) ==
    /\ variant \in Variants
    /\ running = TRUE
    /\ env \in Envs
    /\ inp \in {[script |-> i, seg |-> 1, cnt |-> 0, free |-> 0] :
                  i \in scriptsOf(variant)}
    /\ last = NoFrame
    /\ query = NoQuery
    /\ LET W == NewGame(variant)
       IN  /\ state = W.state
           /\ attempts = W.attempts
           /\ player = W.player
           /\ wall = W.wall
           /\ fakes = W.fakes
           /\ traps = W.traps
           /\ spikes = W.spikes
           /\ stones = W.stones
           /\ door = W.door
           /\ camera = W.camera
           /\ particles = W.particles

\* the keys the play-through holds in the next frame
OnScript == inp.script > 0 /\ inp.seg <= Len(Scripts(variant)[inp.script])
ScriptKeys == Scripts(variant)[inp.script][inp.seg].keys

\* the keyboard after a frame with these keys
NextInput(keys) ==
    IF OnScript /\ keys = ScriptKeys
    THEN IF inp.cnt + 1 >= Scripts(variant)[inp.script][inp.seg].n
         THEN [inp EXCEPT !.seg = inp.seg + 1, !.cnt = 0]
         ELSE [inp EXCEPT !.cnt = inp.cnt + 1]
    ELSE [script |-> 0, seg |-> 1, cnt |-> 0, free |-> inp.free + 1]

KeysNow ==
    (IF OnScript THEN {ScriptKeys} ELSE {})
    \cup (IF inp.free < MaxFree THEN FreeKeys ELSE {})

\* Game.update: if keys[pygame.K_r]: self.reset_game(); return True
FrameReset(keys) ==
    /\ running
    /\ "RST" \in keys
    /\ SetWorld(ResetGame(World))
    /\ last' = [NoFrame EXCEPT !.kind = "reset", !.keys = keys]
    /\ inp' = NextInput(keys)
    /\ UNCHANGED << variant, running, env, query >>

FrameQuitGoesOn(keys) ==
    /\ running
    /\ "RST" \notin keys
    /\ "ESC" \in keys
    /\ last' = [NoFrame EXCEPT !.kind = "quit", !.keys = keys]
    /\ inp' = NextInput(keys)
    /\ UNCHANGED << variant, running, state, attempts, player, wall, fakes,
                    traps, spikes, stones, door, camera, particles, env,
                    query >>

\* Game.update: if keys[pygame.K_ESCAPE]: return False; main() stops
FrameQuit(keys) ==
    /\ running
    /\ "RST" \notin keys
    /\ "ESC" \in keys
    /\ running' = FALSE
    /\ last' = [NoFrame EXCEPT !.kind = "quit", !.keys = keys]
    /\ inp' = NextInput(keys)
    /\ UNCHANGED << variant, state, attempts, player, wall, fakes, traps,
                    spikes, stones, door, camera, particles, env, query >>

\* Game.update: every other frame, step by step in the order of the code.
\* last keeps, for the properties, the collision list, the player before
\* and after Player.physics and the platforms landed on.
FramePlay(keys) ==
    /\ running
    /\ "RST" \notin keys
    /\ "ESC" \notin keys
    /\ \A i \in 1..Len(spikes) : spikes[i].n < SinLen
    /\ \* self.player.control(keys, dt), only while PLAYING
       \E pc \in { IF state = "PLAYING"
                   THEN Control(variant, player, keys, env.dt) ELSE player } :
       \E W1 \in { EarlyUpdates([World EXCEPT !.player = pc],
                                CenterX(pc.rect), env.dt) } :
       \E plats \in { PlatformsForCollision(W1, CenterX(pc.rect)) } :
       \* self.player.physics(dt, platforms_for_collision, self.particles)
       \E ph \in { Physics(variant, pc, plats, env.dt) } :
       \E W2 \in { [W1 EXCEPT
                      !.player = ph.p,
                      !.particles = IF ph.dust
                                    THEN AddParticles(W1.particles,
                                                      DustLife(variant))
                                    ELSE W1.particles] } :
       \E W3 \in { HazardUpdates(W2, plats, CenterX(pc.rect), env.dt, env) } :
       \E W4 \in { [W3 EXCEPT
                      !.particles = ParticlesUpdate(W3.particles, env.dt),
                      !.camera = CameraUpdate(W3.camera, env.dt)] } :
       \* self.handle_collisions()
       \E W5 \in { HandleCollisions(W4) } :
          /\ SetWorld(W5)
          /\ last' = [kind |-> "play", keys |-> keys, plats |-> plats,
                      landed |-> ph.landed, before |-> pc, after |-> ph.p,
                      jumps |-> JumpsSinceLanding(last.jumps, player, pc, ph),
                      djumps |-> DoubleJumpsSinceLanding(last.djumps, player,
                                                         pc, ph),
                      touched |-> last.touched \/ Landing(ph),
                      pressed |-> SincePress(last, player, pc, keys,
                                             env.dt),
                      air |-> SinceLeaving(last, player, pc, ph, plats,
                                          env.dt)]
    /\ inp' = NextInput(keys)
    /\ UNCHANGED << variant, running, env, query >>

Next ==
    \E keys \in KeysNow :
        \/ FrameReset(keys)
        \/ FrameQuit(keys)
        \/ FramePlay(keys)

AllScripts(v) == 1..Len(Scripts(v))

Init == InitWith(AllScripts)

Spec == Init /\ [][Next]_vars

(***************************************************************************)
(* Player.physics on its own: one call on a falling player and a list of   *)
(* platforms, both drawn from small sets.  The player starts clear of      *)
(* every platform, its feet at most MaxHeight pixels above the ground.     *)
(***************************************************************************)
MaxPlats == 2           \* platforms in the list
MaxHeight == 30         \* pixels between the player's feet and the ground
MaxFallFrames == 22     \* frames of gravity behind the player's vy

\* the ground and first ledge of the level, and a low step on the ground
PhysRects ==
    { Platform(0, HEIGHT - 50, WIDTH, 50),
      Platform(120, 560, 220, 20),
      Platform(80, HEIGHT - 55, 100, 16) }

RECURSIVE ListsUpTo(_)
ListsUpTo(n) ==
    IF n = 0 THEN { << >> }
    ELSE ListsUpTo(n - 1)
         \cup { Append(l, r) : l \in { m \in ListsUpTo(n - 1) : Len(m) = n - 1 },
                               r \in PhysRects }

PhysLists == ListsUpTo(MaxPlats) \ { << >> }

PhysPlayers(v) ==
    { p \in { [NewPlayer(v) EXCEPT
                 !.rect.x = 100,
                 !.rect.y = HEIGHT - 50 - PlayerH(v) - d,
                 !.vx = vx,
                 !.vy = k * GRAVITY,
                 !.jump_buffer = jb] :
              d \in 0..MaxHeight, vx \in {0, 3 * VS},
              k \in 0..MaxFallFrames,
              jb \in {0, IF v = "gmae" THEN JUMP_BUFFER_TIME_GMAE - 17
                         ELSE JUMP_BUFFER_TIME_MAIN - 17} } :
        \A r \in PhysRects : ~CollideRect(p.rect, r) }

InitPhysics ==
    /\ variant \in Variants
    /\ running = TRUE
    /\ env \in Envs
    /\ inp = [script |-> 0, seg |-> 1, cnt |-> 0, free |-> 0]
    /\ last = NoFrame
    /\ query = NoQuery
    /\ player \in PhysPlayers(variant)
    /\ LET W == NewGame(variant)
       IN  /\ state = W.state
           /\ attempts = W.attempts
           /\ wall = W.wall
           /\ fakes = W.fakes
           /\ traps = W.traps
           /\ spikes = W.spikes
           /\ stones = W.stones
           /\ door = W.door
           /\ camera = W.camera
           /\ particles = W.particles

\* one call of self.player.physics(dt, plats, self.particles)
PhysicsStep(plats) ==
    /\ last.kind = "init"
    /\ \E ph \in { Physics(variant, player, plats, env.dt) } :
          /\ player' = ph.p
          /\ last' = [kind |-> "physics", keys |-> {}, plats |-> plats,
                      landed |-> ph.landed, before |-> player, after |-> ph.p,
                      jumps |-> 0, djumps |-> 0, touched |-> FALSE,
                      pressed |-> -1, air |-> -1]
    /\ UNCHANGED << variant, running, state, attempts, wall, fakes, traps,
                    spikes, stones, door, camera, particles, env, inp,
                    query >>

NextPhysics == \E plats \in PhysLists : PhysicsStep(plats)

SpecPhysics == InitPhysics /\ [][NextPhysics]_vars

(***************************************************************************)
(* Game.point_in_triangle on its own: one call on a point and a triangle   *)
(* of whole-number coordinates.  The triangles are all those of the grid   *)
(* 0..MaxCoord (collinear ones included) and the right triangle            *)
(* (0,0), (0,10), (10,0); the points are those of the same grid.           *)
(***************************************************************************)
MaxCoord == 3

Pt(x, y) == [x |-> x, y |-> y]
GridPoints(n) == { Pt(x, y) : x \in 0..n, y \in 0..n }

ExampleTriangle == << Pt(0, 0), Pt(0, 10), Pt(10, 0) >>

Queries ==
    { [point |-> p, triangle |-> << a, b, c >>, done |-> FALSE,
       result |-> FALSE] :
        p \in GridPoints(MaxCoord), a \in GridPoints(MaxCoord),
        b \in GridPoints(MaxCoord), c \in GridPoints(MaxCoord) }
    \cup { [point |-> p, triangle |-> ExampleTriangle, done |-> FALSE,
             result |-> FALSE] : p \in GridPoints(10) }

InitTriangle ==
    /\ variant \in Variants
    /\ running = TRUE
    /\ env = [dt |-> 17, kick |-> 0, spin |-> 0]
    /\ inp = [script |-> 0, seg |-> 1, cnt |-> 0, free |-> 0]
    /\ last = NoFrame
    /\ query \in Queries
    /\ LET W == NewGame(variant)
       IN  /\ state = W.state
           /\ attempts = W.attempts
           /\ player = W.player
           /\ wall = W.wall
           /\ fakes = W.fakes
           /\ traps = W.traps
           /\ spikes = W.spikes
           /\ stones = W.stones
           /\ door = W.door
           /\ camera = W.camera
           /\ particles = W.particles

\* one call of self.point_in_triangle(point, triangle)
TriangleStep ==
    /\ ~query.done
    /\ query' = [query EXCEPT
                   !.done = TRUE,
                   !.result = PointInTriangle(query.point, query.triangle)]
    /\ UNCHANGED << variant, running, state, attempts, player, wall, fakes,
                    traps, spikes, stones, door, camera, particles, env, inp,
                    last >>

NextTriangle == TriangleStep

SpecTriangle == InitTriangle /\ [][NextTriangle]_vars

(***************************************************************************)
(* Properties.  last describes the frame that led to the current state:    *)
(* in a step, the unprimed variables are the program before the frame and  *)
(* last' is the record of the frame itself.                                *)
(***************************************************************************)
InList(r, plats) == \E i \in 1..Len(plats) : plats[i] = r

\* the player overlaps the wall's hit zone at the collision check of the
\* frame recorded in f (the wall is checked first, on the player as
\* Player.physics left it)
WallOverlapIn(f) == CollideRect(f.after.rect, Inflate(MagicWallRect, 5, 5))

\* C1: the magic wall is destroyed by exactly two registered overlaps.  Its
\* health is 2, 1 or 0 and it is alive exactly while the health is above 0;
\* a frame lowers the health by one exactly when the game is PLAYING, the
\* wall is alive and the player overlaps its hit zone at the collision
\* check, and leaves it alone otherwise; and a frame that starts with the
\* wall destroyed does not put the wall's rectangle into its collision list.
C1_WallTwoHits ==
    /\ [](wall.health \in 0..2 /\ (wall.alive <=> wall.health > 0))
    /\ [][last'.kind = "play" =>
            wall'.health =
               IF state = "PLAYING" /\ wall.alive /\ WallOverlapIn(last')
               THEN wall.health - 1 ELSE wall.health]_vars
    /\ [][(last'.kind = "play" /\ ~wall.alive) =>
            ~InList(MagicWallRect, last'.plats)]_vars
    /\ [][last'.kind = "quit" => wall' = wall]_vars

\* C1: a frame that began with the wall destroyed (its shake timer has run
\* since the second hit): the collision list has no wall and the player
\* stands where the wall stood
C1_Witness ==
    /\ last.kind = "play"
    /\ state = "PLAYING"
    /\ ~wall.alive /\ wall.health = 0 /\ wall.shake_timer < 300
    /\ CollideRect(player.rect, MagicWallRect)
    /\ ~InList(MagicWallRect, last.plats)

\* a sample point of the player's rectangle lies in the danger triangle of
\* an active spike
SpikeOverlap == SpikeHit(player.rect, spikes)

\* C2: a frame that starts PLAYING and at whose collision check (the player
\* and the spikes as the frame leaves them) a sample point of the player
\* lies in an active spike's danger triangle ends DEAD with attempts one
\* higher; and a DEAD state stays DEAD in every frame but a reset frame.
C2_SpikeKills ==
    /\ [][(last'.kind = "play" /\ state = "PLAYING" /\ SpikeOverlap') =>
            (state' = "DEAD" /\ attempts' = attempts + 1)]_vars
    /\ [][(state = "DEAD" /\ last'.kind # "reset") => state' = "DEAD"]_vars

\* C2: the end of a frame in which a live player ran into a spike
C2_Witness ==
    /\ last.kind = "play"
    /\ ~last.before.dead
    /\ SpikeOverlap
    /\ state = "DEAD"
    /\ attempts = NewGame(variant).attempts + 1

\* C2: a later frame of that session, still DEAD, keys held or not
C2_WitnessStaysDead ==
    /\ last.kind = "play"
    /\ last.before.dead
    /\ last.keys # {}
    /\ state = "DEAD"

\* a frame of a live session with the jump key held
JumpFrame(f) == f.kind = "play" /\ "J" \in f.keys

\* the three cases of a PLAYING frame with the jump key held: on the
\* ground; in the air past the coyote window with the double jump
\* available; in the air past the coyote window with the double jump used
GroundPress(f) == JumpFrame(f) /\ state = "PLAYING" /\ player.on_ground
SecondPress(f) ==
    /\ JumpFrame(f) /\ state = "PLAYING"
    /\ ~player.on_ground /\ player.coyote <= 0
    /\ player.can_double_jump /\ ~player.has_double_jumped
ThirdPress(f) ==
    /\ JumpFrame(f) /\ state = "PLAYING"
    /\ ~player.on_ground /\ player.coyote <= 0
    /\ player.has_double_jumped

\* vy after a frame that moved it by gravity only (or stopped it at 0: a
\* platform above, a plain landing, a teleport)
FallsOn == player'.vy \in {Min(player.vy + GRAVITY, TERMINAL_VELOCITY), 0}

\* on the ground, Player.control sets vy to JUMP_VELOCITY and clears
\* on_ground, and the frame ends off the ground
C3_GroundJump ==
    [][GroundPress(last') =>
         /\ last'.before.vy = JUMP_VELOCITY
         /\ ~last'.before.on_ground
         /\ ~player'.on_ground]_vars

\* with the double jump available, Player.control sets vy to
\* DOUBLE_JUMP_VELOCITY and the frame ends with has_double_jumped set
C3_DoubleJump ==
    [][SecondPress(last') =>
         /\ last'.before.vy = DOUBLE_JUMP_VELOCITY
         /\ last'.before.has_double_jumped
         /\ player'.has_double_jumped]_vars

\* C3 (amended): jump, double jump, third press.  A press on the ground
\* jumps; a press in the air with the double jump available double-jumps;
\* a press in the air with the double jump used leaves vy to Player.control
\* as it was, and the frame ends with vy moved by gravity only unless the
\* player lands in this very frame.
C3_Jumps ==
    /\ C3_GroundJump
    /\ C3_DoubleJump
    /\ [][ThirdPress(last') =>
            /\ last'.before.vy = player.vy
            /\ (last'.landed = << >> => FallsOn)]_vars

\* C3 (as stated): the same, but every frame with a third press ends with vy
\* moved by gravity only, never set to a jump velocity
C3_JumpsAsStated ==
    /\ C3_GroundJump
    /\ C3_DoubleJump
    /\ [][ThirdPress(last') => FallsOn]_vars

\* C3: the end of a frame with a third press in the air: the double jump
\* was used in an earlier frame and vy is that of the fall
C3_Witness ==
    /\ JumpFrame(last)
    /\ state = "PLAYING"
    /\ last.before.has_double_jumped
    /\ last.before.vy \notin {JUMP_VELOCITY, DOUBLE_JUMP_VELOCITY}
    /\ last.landed = << >>
    /\ ~player.on_ground
    /\ player.vy = Min(last.before.vy + GRAVITY, TERMINAL_VELOCITY)

\* C3: the end of the frame of the jump from the ground
C3_WitnessJump ==
    /\ JumpFrame(last)
    /\ last.before.vy = JUMP_VELOCITY
    /\ ~last.before.has_double_jumped
    /\ player.vy = JUMP_VELOCITY + GRAVITY
    /\ ~player.on_ground

\* C3: the end of the frame of the double jump
C3_WitnessDouble ==
    /\ JumpFrame(last)
    /\ last.before.vy = DOUBLE_JUMP_VELOCITY
    /\ player.has_double_jumped
    /\ player.vy = DOUBLE_JUMP_VELOCITY + GRAVITY

\* the frame recorded in f ran Player.physics
PhysicsRan(f) == f.kind \in {"play", "physics"}

\* what a landing leaves in vy: JUMP_VELOCITY in main.py when a buffered
\* jump is pending, 0 otherwise
LandingVy(f) ==
    IF variant = "main" /\ f.before.jump_buffer > 0 THEN JUMP_VELOCITY ELSE 0

\* C4: whenever Player.physics has landed the falling player on a platform
\* of its list, the step ends with the player's bottom at that platform's
\* top and with vy = 0 (main.py: JUMP_VELOCITY when a buffered jump was
\* pending)
C4_Landing ==
    PhysicsRan(last) =>
        \A k \in 1..Len(last.landed) :
            /\ Bottom(last.after.rect) = Top(last.plats[last.landed[k]])
            /\ last.after.vy = LandingVy(last)

\* C4 without the buffered jump of main.py: gmae.py, and main.py with no
\* jump buffered
C4_LandingPlain ==
    (PhysicsRan(last) /\ ~(variant = "main" /\ last.before.jump_buffer > 0)) =>
        \A k \in 1..Len(last.landed) :
            /\ Bottom(last.after.rect) = Top(last.plats[last.landed[k]])
            /\ last.after.vy = 0

\* C4: a landing on the ground with the step next in the list, a jump
\* buffered: the step ends with the player below the ground's top, vy = 0
C4_Witness ==
    /\ last.kind = "physics"
    /\ variant = "main"
    /\ last.before.jump_buffer > 0
    /\ Len(last.plats) = 2
    /\ last.landed = << 1 >>
    /\ Top(last.after.rect) = Bottom(last.plats[2])
    /\ Bottom(last.after.rect) > Top(last.plats[1])
    /\ last.after.vy = 0

\* the player's centre x that FallingStone.trigger_check saw in the frame
\* recorded in f: taken after Player.physics in gmae.py, before it in main.py
TriggerX(f) ==
    IF variant = "gmae" THEN CenterX(f.after.rect) ELSE CenterX(f.before.rect)

\* C5: every falling stone.  A stone without warning still has its
\* configured warning_time on the timer; a frame changes the timer only by
\* taking dt off it, and only for a stone that has its warning and has not
\* dropped; dropped becomes true only in a frame that began with the warning
\* on and that brought the timer to 0 or below; and the warning comes on
\* only in a frame in which the player's centre x is in the trigger range.
C5_StoneDrop ==
    /\ [](\A i \in 1..Len(stones) :
            /\ ~stones[i].warning =>
                  /\ ~stones[i].dropped
                  /\ stones[i].warning_timer = StoneDefs(variant)[i].warning_time
            /\ stones[i].dropped => stones[i].warning_timer <= 0)
    /\ [][last'.kind # "reset" =>
            \A i \in 1..Len(stones) :
               /\ stones'[i].warning_timer # stones[i].warning_timer =>
                     /\ last'.kind = "play"
                     /\ stones'[i].warning /\ ~stones[i].dropped
                     /\ stones'[i].warning_timer =
                           stones[i].warning_timer - env.dt
               /\ (~stones[i].dropped /\ stones'[i].dropped) =>
                     /\ last'.kind = "play"
                     /\ stones[i].warning
                     /\ stones'[i].warning_timer <= 0
                     /\ stones[i].warning_timer > 0
               /\ (~stones[i].warning /\ stones'[i].warning) =>
                     /\ last'.kind = "play"
                     /\ StoneDefs(variant)[i].lo <= TriggerX(last')
                     /\ TriggerX(last') <= StoneDefs(variant)[i].hi]_vars

\* C5: a stone has dropped, its timer run down from warning_time to the
\* first value not above 0, while another stone, whose range the player has
\* not entered, still waits without warning
C5_Witness ==
    /\ last.kind = "play"
    /\ \E i \in 1..Len(stones) :
          /\ stones[i].dropped /\ stones[i].warning
          /\ stones[i].warning_timer <= 0
          /\ stones[i].warning_timer > -env.dt
          /\ (StoneDefs(variant)[i].warning_time - stones[i].warning_timer)
                % env.dt = 0
    /\ \E j \in 1..Len(stones) : ~stones[j].warning

\* the zone around the primary door rectangle in which Door.maybe_troll
\* relocates the door
TrollZone == Inflate(DoorRect1, 60, IF variant = "gmae" THEN 20 ELSE 60)

\* the player, as the collision check of a frame sees it, qualifies for the
\* troll of a door not yet relocated
Qualifies(prect) ==
    /\ CollideRect(prect, TrollZone)
    /\ variant = "gmae" => CenterY(prect) <= CenterY(DoorRect1)

\* C6: the door is relocated at most once in a session.  The active
\* rectangle is the primary one until trolled_once is set and the alternate
\* one from then on; outside a reset, trolled_once once true stays true and
\* the door then keeps its rectangle (and main.py's troll cooldown only runs
\* down); the rectangle changes only in a PLAYING frame in which the player
\* qualifies; and a PLAYING frame in which the player qualifies for the
\* first time (survives, and in main.py the door was not open) sets it.
C6_TrollOnce ==
    /\ [](/\ door.rect = (IF door.trolled_once THEN DoorRect2 ELSE DoorRect1)
          /\ ~door.trolled_once => door.troll_cooldown = 0)
    /\ [][last'.kind # "reset" =>
            /\ door.trolled_once =>
                  /\ door'.trolled_once
                  /\ door'.rect = door.rect
                  /\ door'.troll_cooldown <= door.troll_cooldown
            /\ door'.rect # door.rect =>
                  /\ last'.kind = "play" /\ state = "PLAYING"
                  /\ Qualifies(player'.rect)
            /\ (/\ last'.kind = "play" /\ state = "PLAYING" /\ state' # "DEAD"
                /\ ~door.trolled_once /\ Qualifies(player'.rect)
                /\ variant = "main" => ~door.open) =>
                  door'.trolled_once]_vars

\* C6: a frame after the one of the troll (nothing has added particles in
\* it) with the player in the troll zone of the primary rectangle again: the
\* door stays where the troll put it
C6_Witness ==
    /\ last.kind = "play"
    /\ state = "PLAYING"
    /\ door.trolled_once /\ door.rect = DoorRect2
    /\ Qualifies(player.rect)
    /\ particles < ExplosionLife(variant)

\* C7: DEAD and WON are terminal.  A frame that starts DEAD or WON and is
\* not a reset frame ends in the same state; a frame with the reset key
\* held is a reset frame and ends PLAYING.
C7_Terminal ==
    /\ [][(state \in {"DEAD", "WON"} /\ last'.kind # "reset") =>
            state' = state]_vars
    /\ [][("RST" \in last'.keys <=> last'.kind = "reset")
          /\ (last'.kind = "reset" => state' = "PLAYING")]_vars

\* C7: a frame played with keys held after the session was won: still WON
C7_Witness ==
    /\ last.kind = "play"
    /\ last.keys # {}
    /\ last.before.win
    /\ state = "WON"

\* C7: the reset frame that ends a finished session
C7_WitnessReset ==
    /\ last.kind = "reset"
    /\ state = "PLAYING"
    /\ attempts > NewGame(variant).attempts

\* the session is as Game.__init__ left it, but for the attempts counter
\* (the fake doors of main.py are fixed rectangles and have no state)
Fresh ==
    LET G == NewGame(variant)
    IN  /\ state = "PLAYING"
        /\ player = G.player
        /\ wall = G.wall
        /\ spikes = G.spikes
        /\ stones = G.stones
        /\ fakes = G.fakes
        /\ traps = G.traps
        /\ door = G.door
        /\ particles = G.particles
        /\ camera = G.camera

\* C8: after reset_game the state is PLAYING and the player, wall, spikes,
\* stones, fake platforms, teleport traps, door, particles and camera equal
\* their values right after construction; a reset happens in every frame
\* with the reset key held, whatever the state
C8_Reset ==
    /\ [][last'.kind = "reset" => Fresh']_vars
    /\ [][("RST" \in last'.keys) => Fresh']_vars
    /\ [](last.kind = "reset" => Fresh)

\* C8: the reset at the end of the play-through over the ledges, whose
\* session destroyed the wall, relocated and opened the door, activated
\* spikes, dropped stones and was won
C8_Witness ==
    /\ last.kind = "reset"
    /\ inp.script = 1
    /\ inp.seg = Len(Scripts(variant)[1])
    /\ Fresh

\* C8: the state that reset starts from
C8_WitnessBefore ==
    /\ state = "WON"
    /\ ~wall.alive
    /\ door.trolled_once /\ door.open
    /\ \E i \in 1..Len(stones) : stones[i].dropped
    /\ \E i \in 1..Len(spikes) : spikes[i].active # NewGame(variant).spikes[i].active
    /\ player.rect # NewPlayer(variant).rect
    /\ inp.script = 1
    /\ Scripts(variant)[1][inp.seg].keys = RST

\* C9: the state becomes WON only in a PLAYING frame that ends with the
\* door open and the player overlapping the door's active rectangle, which
\* is the alternate one once the door has been relocated; and the door is
\* open at the end of a frame only if it was open before and the frame is no
\* reset, or the player overlaps the win-trigger zone in this frame.
C9_Win ==
    /\ [][(state # "WON" /\ state' = "WON") =>
            /\ last'.kind = "play" /\ state = "PLAYING"
            /\ door'.open
            /\ CollideRect(player'.rect, door'.rect)
            /\ door'.rect = (IF door'.trolled_once THEN DoorRect2
                             ELSE DoorRect1)]_vars
    /\ [][door'.open =>
            \/ door.open /\ last'.kind # "reset"
            \/ /\ last'.kind = "play" /\ state = "PLAYING"
               /\ CollideRect(player'.rect, WinTrigger)]_vars

\* C9: the frame of a win at the relocated door: the player is in the
\* alternate rectangle, away from the primary one and from the win-trigger
\* zone it went through earlier
C9_Witness ==
    /\ last.kind = "play"
    /\ ~last.before.win
    /\ state = "WON"
    /\ door.open /\ door.trolled_once
    /\ CollideRect(player.rect, DoorRect2)
    /\ ~CollideRect(player.rect, WinTrigger)

\* C9: the frame of a win at the primary rectangle of a door never relocated
C9_WitnessPrimary ==
    /\ last.kind = "play"
    /\ ~last.before.win
    /\ state = "WON"
    /\ door.open /\ ~door.trolled_once
    /\ CollideRect(player.rect, DoorRect1)

\* C9: the player stands in the active rectangle of a door still closed:
\* the session goes on
C9_WitnessClosed ==
    /\ last.kind = "play"
    /\ state = "PLAYING"
    /\ ~door.open
    /\ CollideRect(player.rect, door.rect)

\* C10: the troll never fires on an open door.  A frame that starts with
\* the door open, and is no reset, leaves the door's rectangle and its
\* trolled_once flag as they were.
C10_NoTrollWhenOpen ==
    [][(door.open /\ last'.kind # "reset") =>
         /\ door'.rect = door.rect
         /\ door'.trolled_once = door.trolled_once]_vars

\* C10 for main.py alone
C10_NoTrollWhenOpenMain ==
    [][(variant = "main" /\ door.open /\ last'.kind # "reset") =>
         /\ door'.rect = door.rect
         /\ door'.trolled_once = door.trolled_once]_vars

\* C10: the player, having opened the door at the win-trigger zone, is in
\* the troll zone of the primary rectangle: in main.py the door is still
\* there
C10_WitnessMain ==
    /\ variant = "main"
    /\ last.kind = "play"
    /\ state = "PLAYING"
    /\ door.open /\ ~door.trolled_once /\ door.rect = DoorRect1
    /\ Qualifies(player.rect)

\* C10: gmae.py, the frame of a troll (it adds particles) on a door opened
\* earlier: the player is in the troll zone, clear of the win-trigger zone,
\* and the open door is at the alternate rectangle
C10_Witness ==
    /\ variant = "gmae"
    /\ last.kind = "play"
    /\ state = "PLAYING"
    /\ door.open /\ door.trolled_once /\ door.rect = DoorRect2
    /\ Qualifies(player.rect)
    /\ ~CollideRect(player.rect, WinTrigger)
    /\ particles = ExplosionLife(variant)

(***************************************************************************)
(* C14.  Game.point_in_triangle against the geometry of the triangle.      *)
(***************************************************************************)
\* twice the signed area of the triangle a, b, p
Cross(a, b, p) == (b.x - a.x) * (p.y - a.y) - (b.y - a.y) * (p.x - a.x)

Collinear(tri) == Cross(tri[1], tri[2], tri[3]) = 0

\* p is inside the triangle or on its boundary: it is on no edge's outer side
InsideOrOn(p, tri) ==
    LET d1 == Cross(tri[1], tri[2], p)
        d2 == Cross(tri[2], tri[3], p)
        d3 == Cross(tri[3], tri[1], p)
    IN  ~((d1 < 0 \/ d2 < 0 \/ d3 < 0) /\ (d1 > 0 \/ d2 > 0 \/ d3 > 0))

\* p is on the boundary of the triangle
OnBoundary(p, tri) ==
    /\ InsideOrOn(p, tri)
    /\ \/ Cross(tri[1], tri[2], p) = 0
       \/ Cross(tri[2], tri[3], p) = 0
       \/ Cross(tri[3], tri[1], p) = 0

Answered == query.done

\* C14: point_in_triangle returns true exactly for the points inside or on
\* the boundary of a non-degenerate triangle, and false for every point when
\* the three vertices are collinear.
C14_PointInTriangle ==
    Answered =>
        IF Collinear(query.triangle) THEN query.result = FALSE
        ELSE query.result = InsideOrOn(query.point, query.triangle)

\* C14, what does hold: the answer is right for every point off the
\* boundary (in particular (2,2) is inside and (9,9) is outside the triangle
\* (0,0), (0,10), (10,0)), and it is false for collinear vertices; a point
\* on the boundary may be answered either way.
C14_OffBoundary ==
    Answered =>
        /\ Collinear(query.triangle) => query.result = FALSE
        /\ (~Collinear(query.triangle)
            /\ ~OnBoundary(query.point, query.triangle))
           => query.result = InsideOrOn(query.point, query.triangle)
        /\ (query.triangle = ExampleTriangle /\ query.point = Pt(2, 2))
           => query.result = TRUE
        /\ (query.triangle = ExampleTriangle /\ query.point = Pt(9, 9))
           => query.result = FALSE

\* the point (0,1) on the edge from (0,0) to (0,10) is answered "outside"
C14_Witness ==
    /\ Answered
    /\ query.triangle = ExampleTriangle
    /\ query.point = Pt(0, 1)
    /\ OnBoundary(query.point, query.triangle)
    /\ query.result = FALSE

\* a point on the boundary that is answered "inside"
C14_WitnessOnEdge ==
    /\ Answered
    /\ query.triangle = ExampleTriangle
    /\ query.point = Pt(0, 3)
    /\ query.result = TRUE

(***************************************************************************)
(* The fake platforms of main.py                                           *)
(***************************************************************************)
\* Player.physics has put the falling player on top of fake platform i in
\* the last frame (the platform was in the collision list, so it was active
\* and not triggered)
LandedOnFake(i) ==
    /\ variant = "main"
    /\ last.kind = "play"
    /\ \E k \in 1..Len(last.landed) :
          last.plats[last.landed[k]] = FakePlatformDefs("main")[i].rect

\* C11: in main.py, whenever the descending player lands on top of a fake
\* platform that is active and not yet triggered, that platform is
\* triggered (its disappear timer runs) at the end of that frame.
C11_FakeTrigger ==
    \A i \in 1..Len(fakes) :
        (LandedOnFake(i) /\ state = "PLAYING") => fakes[i].triggered

\* C11, what the code does instead: the landing leaves the player on top of
\* the platform without overlap and with vy = 0 (or with the vy of a
\* buffered jump), so the test of handle_collisions (overlap and vy > 0)
\* fails, and no fake platform is ever triggered
C11_NeverTriggered ==
    \A i \in 1..Len(fakes) :
        /\ ~fakes[i].triggered
        /\ fakes[i].active
        /\ LandedOnFake(i) =>
              /\ last.after.vy <= 0
              /\ ~CollideRect(last.after.rect, FakePlatformDefs("main")[i].rect)

\* the player has landed on the first fake platform and stands on it, and
\* the platform is not triggered
C11_Witness ==
    /\ LandedOnFake(1)
    /\ state = "PLAYING"
    /\ Bottom(player.rect) = Top(FakePlatformDefs("main")[1].rect)
    /\ player.on_ground
    /\ ~fakes[1].triggered

(***************************************************************************)
(* The teleport traps of main.py                                           *)
(***************************************************************************)
\* the cooldown of trap i when handle_collisions tests it in the next frame:
\* Game.update has called trap.update(dt) before, if the trap is within 800
\* pixels of the player
CooldownAtCheck(i) ==
    IF Near(TeleportDefs("main")[i].rect, CenterX(player.rect), 800)
    THEN TeleportTrapUpdate(traps[i], env.dt).cooldown
    ELSE traps[i].cooldown

\* the frame has moved the player after Player.physics: a teleport
Relocated ==
    /\ variant = "main"
    /\ last'.kind = "play"
    /\ player'.rect # last'.after.rect

\* trap i has fired in the frame
TrapFired(i) ==
    /\ variant = "main"
    /\ last'.kind = "play"
    /\ traps'[i].cooldown = TELEPORT_COOLDOWN_MAX
    /\ CooldownAtCheck(i) # TELEPORT_COOLDOWN_MAX

\* C13: in main.py a teleport trap relocates the player only in a frame
\* where its cooldown is <= 0 and the player's rectangle overlaps the trap;
\* after that frame the rectangle is at the trap's destination, vx and vy
\* are 0 and the cooldown equals cooldown_max; a trap whose cooldown is
\* still > 0 does not teleport the player.
C13_Teleport ==
    [][ /\ Relocated => \E i \in 1..Len(traps) : TrapFired(i)
        /\ \A i \in 1..Len(traps) :
              /\ TrapFired(i) =>
                    /\ state = "PLAYING"
                    /\ CooldownAtCheck(i) <= 0
                    /\ CollideRect(last'.after.rect, TeleportDefs("main")[i].rect)
                    /\ player'.rect.x = TeleportDefs("main")[i].dest.x
                    /\ player'.rect.y = TeleportDefs("main")[i].dest.y
                    /\ player'.rect.w = last'.after.rect.w
                    /\ player'.rect.h = last'.after.rect.h
                    /\ player'.vx = 0
                    /\ player'.vy = 0
              /\ (variant = "main" /\ last'.kind = "play"
                  /\ CooldownAtCheck(i) > 0) =>
                    /\ traps'[i].cooldown = CooldownAtCheck(i)
                    /\ ~Relocated
      ]_vars

\* the trap has just teleported the player: the player is at the
\* destination, at rest, the rectangle Player.physics left it in overlapped
\* the trap, and the cooldown is at its maximum
C13_Witness ==
    /\ variant = "main"
    /\ last.kind = "play"
    /\ CollideRect(last.after.rect, TeleportDefs("main")[1].rect)
    /\ player.rect.x = TeleportDefs("main")[1].dest.x
    /\ player.rect.y = TeleportDefs("main")[1].dest.y
    /\ player.vx = 0 /\ player.vy = 0
    /\ traps[1].cooldown = TELEPORT_COOLDOWN_MAX

\* the player is back in the trap while its cooldown runs, and has not been
\* teleported
C13_WitnessCooldown ==
    /\ variant = "main"
    /\ last.kind = "play"
    /\ state = "PLAYING"
    /\ traps[1].cooldown > 0
    /\ traps[1].cooldown < TELEPORT_COOLDOWN_MAX
    /\ CollideRect(player.rect, TeleportDefs("main")[1].rect)
    /\ player.rect = last.after.rect

(***************************************************************************)
(* The fake platforms of main.py on their own: FakePlatform.trigger, and    *)
(* the part of Game.update that updates them and builds the collision      *)
(* list, with the player standing at the spawn point or at the far end of  *)
(* the ground.  A platform is followed until MaxOvertime ms after its       *)
(* delay has elapsed.                                                      *)
(***************************************************************************)
MaxOvertime == 60

InitFake ==
    /\ variant = "main"
    /\ running = TRUE
    /\ env \in Envs
    /\ inp = [script |-> 0, seg |-> 1, cnt |-> 0, free |-> 0]
    /\ last = NoFrame
    /\ query = NoQuery
    /\ LET W == NewGame("main")
       IN  /\ state = W.state
           /\ attempts = W.attempts
           /\ player \in { W.player,
                           [W.player EXCEPT !.rect.x = WIDTH - 80] }
           /\ wall = W.wall
           /\ fakes = W.fakes
           /\ traps = W.traps
           /\ spikes = W.spikes
           /\ stones = W.stones
           /\ door = W.door
           /\ camera = W.camera
           /\ particles = W.particles

\* platform.trigger() on fake platform i
FakeTriggerStep(i) ==
    /\ fakes[i].active /\ ~fakes[i].triggered
    /\ fakes' = [fakes EXCEPT
                   ![i] = FakePlatformTrigger(fakes[i], FakePlatformDefs("main")[i])]
    /\ last' = [NoFrame EXCEPT !.kind = "trigger"]
    /\ UNCHANGED << variant, running, state, attempts, player, wall, traps,
                    spikes, stones, door, camera, particles, env, inp,
                    query >>

\* Game.update: platform.update(dt) for the fake platforms within 800
\* pixels, then platforms_for_collision
FakeFrameStep ==
    /\ \A i \in 1..Len(fakes) : fakes[i].disappear_timer > -MaxOvertime
    /\ \E W1 \in { EarlyUpdates(World, CenterX(player.rect), env.dt) } :
          /\ fakes' = W1.fakes
          /\ last' = [NoFrame EXCEPT
                        !.kind = "fakes",
                        !.plats = PlatformsForCollision(W1, CenterX(player.rect))]
    /\ UNCHANGED << variant, running, state, attempts, player, wall, traps,
                    spikes, stones, door, camera, particles, env, inp,
                    query >>

NextFake ==
    \/ \E i \in 1..Len(fakes) : FakeTriggerStep(i)
    \/ FakeFrameStep

SpecFake == InitFake /\ [][NextFake]_vars

\* fake platform i is within 800 pixels of the player
FakeNear(i) == Near(FakePlatformDefs("main")[i].rect, CenterX(player.rect), 800)

FakeInList(i) == InList(FakePlatformDefs("main")[i].rect, last.plats)

\* C12: in main.py a triggered fake platform stays in the per-frame
\* collision list in every frame until its disappear delay has fully
\* elapsed, and is out of the list from then on.
C12_StaysUntilDelay ==
    (variant = "main" /\ last.kind = "fakes") =>
        \A i \in 1..Len(fakes) :
            (fakes[i].triggered /\ FakeNear(i)) =>
                (FakeInList(i) <=> fakes[i].disappear_timer > 0)

\* C12, what the code does: a fake platform is in the collision list of a
\* frame exactly while it is active, not triggered and within 800 pixels;
\* a triggered platform is out of the list from the first frame on, also
\* while its delay still runs.
C12_OutOnceTriggered ==
    (variant = "main" /\ last.kind = "fakes") =>
        \A i \in 1..Len(fakes) :
            /\ FakeInList(i) <=>
                  (fakes[i].active /\ ~fakes[i].triggered /\ FakeNear(i))
            /\ fakes[i].triggered => ~FakeInList(i)
            /\ (fakes[i].triggered /\ FakeNear(i)) =>
                  (fakes[i].active <=> fakes[i].disappear_timer > 0)

\* the first fake platform has been triggered, its delay still runs, and
\* the collision list of the frame does not hold it
C12_Witness ==
    /\ variant = "main"
    /\ last.kind = "fakes"
    /\ fakes[1].triggered
    /\ fakes[1].active
    /\ fakes[1].disappear_timer > 0
    /\ FakeNear(1)
    /\ ~FakeInList(1)

(***************************************************************************)
(* One contact with the magic wall                                         *)
(***************************************************************************)
\* C15: one continuous contact with the magic wall registers one hit: in a
\* frame in which the player overlaps the wall's hit area, after a frame in
\* which it overlapped the hit area of the living wall already,
\* MagicWall.hit has no effect.
C15_OneHitPerContact ==
    [][ ( /\ last.kind = "play" /\ WallOverlapIn(last)
          /\ last'.kind = "play" /\ WallOverlapIn(last') )
        => wall'.health = wall.health ]_vars

\* the wall has been destroyed by the hits of two consecutive frames of one
\* contact: the crack timer of the first hit has run for one frame when the
\* second hit sets the shake timer
C15_Witness ==
    /\ last.kind = "play"
    /\ WallOverlapIn(last)
    /\ ~wall.alive /\ wall.health = 0
    /\ wall.shake_timer = 300
    /\ wall.cracked /\ wall.crack_timer = 800 - env.dt

(***************************************************************************)
(* The player after death or win                                           *)
(***************************************************************************)
\* the frame leaves the player's rectangle, velocity and on_ground alone
PlayerKept ==
    /\ player'.rect = player.rect
    /\ player'.vx = player.vx
    /\ player'.vy = player.vy
    /\ player'.on_ground = player.on_ground

\* C16: in both variants, once the state is DEAD or WON no frame but a
\* reset changes the player's rectangle, vx, vy or on_ground.
C16_Frozen ==
    [][ (state \in {"DEAD", "WON"} /\ last'.kind = "play") => PlayerKept ]_vars

\* C16, what holds: main.py keeps the dead or winning player as it is
\* (Player.physics returns at once); in gmae.py key input no longer reaches
\* the player, but gravity and the collision resolution still move it.
C16_FrozenMain ==
    [][ (state \in {"DEAD", "WON"} /\ last'.kind = "play") =>
            /\ variant = "main" => PlayerKept
            /\ last'.before = player ]_vars

\* gmae.py: a frame that began DEAD has moved the dead player
C16_Witness ==
    /\ variant = "gmae"
    /\ state = "DEAD"
    /\ last.kind = "play"
    /\ last.before.dead
    /\ last.after.rect # last.before.rect
    /\ player = last.after

\* main.py: a frame that began DEAD or WON and has left the player alone
C16_WitnessMain ==
    /\ variant = "main"
    /\ state \in {"DEAD", "WON"}
    /\ last.kind = "play"
    /\ (last.before.dead \/ last.before.win)
    /\ player = last.before

(***************************************************************************)
(* The updates of the hazards in a frame                                   *)
(***************************************************************************)
\* what one call of update(dt) makes of each hazard in the frame from the
\* unprimed to the primed state (the stones after trigger_check, with the
\* player's centre and the platform list the file passes)
SpikeUpdated(i) == SpikeUpdate(spikes[i], SpikeDefs(variant)[i], env.dt)

StoneUpdated(i) ==
    IF variant = "gmae"
    THEN StoneUpdateGmae(TriggerCheck(stones[i], StoneDefs(variant)[i],
                                      CenterX(last'.after.rect)),
                         env.dt, Platforms(variant), env).s
    ELSE StoneUpdateMain(TriggerCheck(stones[i], StoneDefs(variant)[i],
                                      CenterX(last'.before.rect)),
                         env.dt, last'.plats, env).s

WallUpdated == MagicWallUpdate(wall, env.dt)

\* C17: in both variants, in every frame that is neither a reset nor a quit
\* frame, every hazard has its update called exactly once with the frame's
\* dt, whatever the player's position and the game state: each spike, each
\* stone, each fake platform, each teleport trap (which handle_collisions
\* may then fire) and the magic wall (which handle_collisions may then hit).
C17_EveryHazardUpdated ==
    [][ last'.kind = "play" =>
          /\ \A i \in 1..Len(spikes) : spikes'[i] = SpikeUpdated(i)
          /\ \A i \in 1..Len(stones) : stones'[i] = StoneUpdated(i)
          /\ \A i \in 1..Len(fakes) :
                fakes'[i] \in { FakePlatformUpdate(fakes[i], env.dt),
                                FakePlatformTrigger(
                                    FakePlatformUpdate(fakes[i], env.dt),
                                    FakePlatformDefs(variant)[i]) }
          /\ \A i \in 1..Len(traps) :
                traps'[i].cooldown \in
                    { TeleportTrapUpdate(traps[i], env.dt).cooldown,
                      TELEPORT_COOLDOWN_MAX }
          /\ wall' \in { WallUpdated, MagicWallHit(WallUpdated) }
      ]_vars

\* C17, what holds: gmae.py updates every hazard in every frame; main.py
\* updates a spike, a fake platform, a teleport trap or the wall only while
\* it is within 800 pixels of the player's centre at the start of the
\* frame, and a stone within 1000 pixels, and leaves it as it is otherwise.
C17_UpdatedWhenNear ==
    [][ last'.kind = "play" =>
          /\ \A i \in 1..Len(spikes) :
                spikes'[i] =
                    IF variant = "gmae"
                       \/ Near(spikes[i].rect, CenterX(last'.before.rect), 800)
                    THEN SpikeUpdated(i) ELSE spikes[i]
          /\ \A i \in 1..Len(stones) :
                stones'[i] =
                    IF variant = "gmae"
                       \/ Near(stones[i].rect, CenterX(last'.before.rect), 1000)
                    THEN StoneUpdated(i) ELSE stones[i]
          /\ \A i \in 1..Len(traps) :
                traps'[i].cooldown \in
                    { IF Near(TeleportDefs(variant)[i].rect,
                              CenterX(last'.before.rect), 800)
                      THEN TeleportTrapUpdate(traps[i], env.dt).cooldown
                      ELSE traps[i].cooldown,
                      TELEPORT_COOLDOWN_MAX }
          /\ wall' \in
                { IF variant = "gmae"
                     \/ Near(MagicWallRect, CenterX(last'.before.rect), 800)
                  THEN WallUpdated ELSE wall,
                  MagicWallHit(IF variant = "gmae"
                                  \/ Near(MagicWallRect,
                                          CenterX(last'.before.rect), 800)
                               THEN WallUpdated ELSE wall) }
      ]_vars

\* main.py: after the first frames at the spawn point the pop-up spike of
\* the far ledge has not been updated once, while the near ones have
C17_Witness ==
    /\ variant = "main"
    /\ last.kind = "play"
    /\ spikes[1].n = 3
    /\ spikes[4].n = 0
    /\ spikes[4].timer = SpikeDefs("main")[4].delay
    /\ ~Near(spikes[4].rect, CenterX(last.before.rect), 800)

\* gmae.py: every spike has been updated in each of the first frames
C17_WitnessGmae ==
    /\ variant = "gmae"
    /\ last.kind = "play"
    /\ \A i \in 1..Len(spikes) : spikes[i].n = 3

(***************************************************************************)
(* Pop-up spikes                                                           *)
(***************************************************************************)
\* the danger triangle spike sp has once active
ZoneWhenActive(sp) == GetDangerZone([sp EXCEPT !.active = TRUE])

\* a sample point of the rectangle r lies in the triangle of spike sp,
\* active or not
InTriangleOf(r, sp) == PointInTriangleCollision(r, ZoneWhenActive(sp))

\* C20: in both variants a pop-up spike cannot kill before its countdown
\* has reached <= 0 (an inactive spike is a pop-up spike whose timer is
\* above 0, and its danger zone is None); a spike that is not a pop-up
\* spike is active from construction; an active spike stays active in every
\* frame but a reset; and a frame that kills the player while no fake door
\* and no stone touches it has the player in the triangle of an active
\* spike.
C20_PopupSpike ==
    /\ [](\A i \in 1..Len(spikes) :
            /\ ~spikes[i].active =>
                  /\ SpikeDefs(variant)[i].popup
                  /\ spikes[i].timer > 0
                  /\ GetDangerZone(spikes[i]) = << >>
            /\ ~SpikeDefs(variant)[i].popup => spikes[i].active
            /\ (SpikeDefs(variant)[i].popup /\ spikes[i].active) =>
                  spikes[i].timer <= 0)
    /\ [][ \A i \in 1..Len(spikes) :
             (spikes[i].active /\ last'.kind # "reset") => spikes'[i].active
         ]_vars
    /\ [][ ( /\ last'.kind = "play" /\ state = "PLAYING" /\ state' = "DEAD"
             /\ ~FakeDoorKills(World)' /\ ~StoneKills(World)' )
           => \E i \in 1..Len(spikes) :
                 /\ spikes'[i].active
                 /\ SpikeDefs(variant)[i].popup => spikes'[i].timer <= 0
                 /\ InTriangleOf(player'.rect, spikes'[i])
         ]_vars

\* the player stands in the triangle of a pop-up spike that is not active
\* yet, and plays on
C20_Witness ==
    /\ last.kind = "play"
    /\ state = "PLAYING"
    /\ \E i \in 1..Len(spikes) :
          /\ SpikeDefs(variant)[i].popup
          /\ ~spikes[i].active
          /\ spikes[i].timer > 0
          /\ spikes[i].timer < SpikeDefs(variant)[i].delay
          /\ InTriangleOf(player.rect, spikes[i])

\* a pop-up spike whose countdown has run out has killed the player
C20_WitnessKill ==
    /\ last.kind = "play"
    /\ state = "DEAD"
    /\ ~last.before.dead
    /\ \E i \in 1..Len(spikes) :
          /\ SpikeDefs(variant)[i].popup
          /\ spikes[i].active
          /\ spikes[i].timer <= 0
          /\ InTriangleOf(player.rect, spikes[i])

(***************************************************************************)
(* Death before the door                                                   *)
(***************************************************************************)
\* the kill condition and the win condition of handle_collisions in the
\* frame from the unprimed to the primed state: on the player, the spikes
\* and the stones as the frame leaves them, and the door as it is at the
\* check (after door.update)
KillCondition ==
    (FakeDoorKills(World) \/ SpikeKills(World) \/ StoneKills(World))'

WinCondition ==
    CheckWinCollision(variant, DoorUpdate(variant, door, env.dt), player'.rect)

\* C18: in both variants, a frame in which the player's rectangle satisfies
\* a kill condition (fake door, active spike, stone) and the win condition
\* (door open, overlap with the door's rectangle) ends DEAD, not WON, and
\* the door is neither trolled nor opened in it.
C18_DeathFirst ==
    [][ ( /\ last'.kind = "play" /\ state = "PLAYING"
          /\ WinCondition /\ KillCondition )
        => /\ state' = "DEAD"
           /\ player'.dead /\ ~player'.win
           /\ door' = DoorUpdate(variant, door, env.dt) ]_vars

\* the player has died in a frame that began PLAYING, on the open door's
\* active rectangle
C18_Witness ==
    /\ last.kind = "play"
    /\ state = "DEAD"
    /\ ~last.before.dead
    /\ door.open
    /\ CheckWinCollision(variant, door, player.rect)
    /\ SpikeKills(World)

(***************************************************************************)
(* Stones that have not dropped yet                                        *)
(***************************************************************************)
\* stone i, as the frame leaves it, overlaps the player
StoneOn(i) == CollideRect(stones[i].rect, player.rect)

\* a stone that has begun to fall (falling, bounced or settled) overlaps
\* the player
DroppedStoneOn == \E i \in 1..Len(stones) : stones[i].dropped /\ StoneOn(i)

\* C19: in both variants a stone kills the player on overlap exactly in the
\* states after its fall has begun: a frame that begins PLAYING and ends
\* with a dropped stone on the player ends DEAD, and a frame that ends with
\* no fake door, no active spike and no dropped stone on the player does
\* not end DEAD, also when an idle or warning stone overlaps the player.
C19_OnlyDroppedStonesKill ==
    [][ (last'.kind = "play" /\ state = "PLAYING") =>
           /\ state' = "DEAD" =>
                 \/ DroppedStoneOn'
                 \/ FakeDoorKills(World)'
                 \/ SpikeKills(World)'
           /\ DroppedStoneOn' => state' = "DEAD" ]_vars

\* C19, what the code does: every stone kills on overlap, dropped or not
C19_EveryStoneKills ==
    [][ (last'.kind = "play" /\ state = "PLAYING") =>
           /\ state' = "DEAD" =>
                 \/ (\E i \in 1..Len(stones) : StoneOn(i))'
                 \/ FakeDoorKills(World)'
                 \/ SpikeKills(World)'
           /\ (\E i \in 1..Len(stones) : StoneOn(i))' => state' = "DEAD" ]_vars

\* the player has been killed at the top of a double jump by the first
\* stone, which still hangs in its place, warning
C19_Witness ==
    /\ last.kind = "play"
    /\ state = "DEAD"
    /\ ~last.before.dead
    /\ StoneOn(1)
    /\ ~stones[1].dropped
    /\ stones[1].warning
    /\ ~DroppedStoneOn
    /\ ~FakeDoorKills(World)
    /\ ~SpikeKills(World)

(***************************************************************************)
(* C21: the double jump fires at most once per airborne phase.             *)
(***************************************************************************)
\* C21: in both variants, between two landings Player.control sets vy to
\* DOUBLE_JUMP_VELOCITY in at most one frame
C21_OneDoubleJump == last.djumps <= 1

\* a double jump was made and the jump key pressed again before the landing
C21_Witness ==
    /\ last.kind = "play"
    /\ "J" \in last.keys
    /\ last.djumps = 1
    /\ last.before.vy # DOUBLE_JUMP_VELOCITY
    /\ last.landed = << >>
    /\ ~last.after.on_ground

(***************************************************************************)
(* C22: a landing makes the double jump available again.                   *)
(***************************************************************************)
\* the coyote window is over when Player.control tests it: gmae.py tests
\* coyote_timer > 0 before the countdown of the frame, main.py after it
CoyoteOver ==
    IF variant = "gmae" THEN player.coyote <= 0
    ELSE player.coyote - env.dt <= 0

\* a jump press of a PLAYING frame in the air, the coyote window over, the
\* player having landed before and not double-jumped since the last landing
FirstAirPress(f) ==
    /\ JumpFrame(f) /\ state = "PLAYING"
    /\ last.touched /\ last.djumps = 0
    /\ ~player.on_ground /\ CoyoteOver

\* C22: in both variants, after a landing the first jump press in the air
\* past the coyote window sets vy to DOUBLE_JUMP_VELOCITY, whether the
\* air was entered by a jump or by walking off an edge, and also when the
\* double jump was used before the landing
C22_LandingRestoresDoubleJump ==
    [][FirstAirPress(last') => last'.before.vy = DOUBLE_JUMP_VELOCITY]_vars

\* the same in gmae.py alone
C22_RestoredGmae ==
    [][(variant = "gmae" /\ FirstAirPress(last'))
         => last'.before.vy = DOUBLE_JUMP_VELOCITY]_vars

\* main.py: a press in the air past the coyote window, no double jump made
\* since the last landing, and Player.control buffers it instead
C22_Witness ==
    /\ variant = "main" /\ state = "PLAYING"
    /\ last.kind = "play" /\ "J" \in last.keys
    /\ last.touched /\ last.djumps = 0 /\ last.jumps = 0
    /\ last.before.jump_buffer = JUMP_BUFFER_TIME_MAIN
    /\ last.before.has_double_jumped
    /\ last.before.vy > 0

\* gmae.py: the double jump made after a landing
C22_WitnessGmae ==
    /\ variant = "gmae" /\ last.kind = "play" /\ "J" \in last.keys
    /\ last.touched /\ last.djumps = 1
    /\ last.before.vy = DOUBLE_JUMP_VELOCITY

(***************************************************************************)
(* C23: the jump buffer.                                                   *)
(***************************************************************************)
JumpBufferTime == 
    IF variant = "gmae" THEN JUMP_BUFFER_TIME_GMAE ELSE JUMP_BUFFER_TIME_MAIN

\* the frame f ended with a landing that a buffered press preceded by at
\* most / by more than the buffer window
LandedInWindow(f) ==
    /\ f.kind = "play" /\ f.landed # << >>
    /\ f.pressed >= 0 /\ f.pressed <= JumpBufferTime
LandedLate(f) ==
    /\ f.kind = "play" /\ f.landed # << >>
    /\ f.pressed > JumpBufferTime

\* main.py: the jump fires in Player.physics at the landing
FiresAtLandingMain ==
    (variant = "main" /\ LandedInWindow(last'))
        => /\ last'.after.vy = JUMP_VELOCITY
           /\ last'.after.jump_buffer = 0
\* gmae.py: the jump fires in Player.control of the frame after the
\* landing, whatever keys are held then
FiresAtLandingGmae ==
    (variant = "gmae" /\ LandedInWindow(last) /\ state = "PLAYING"
       /\ last'.kind = "play")
        => /\ last'.before.vy = JUMP_VELOCITY
           /\ last'.before.jump_buffer = 0

\* C23: in both variants, a landing within the buffer window (0.1 s in
\* gmae.py, 0.15 s in main.py) after a jump press that was made in the air
\* and left to the buffer makes a full jump (vy = JUMP_VELOCITY) with no
\* new key press and clears the buffer
C23_BufferedJump == [][FiresAtLandingMain /\ FiresAtLandingGmae]_vars

\* main.py alone
C23_BufferedJumpMain == [][FiresAtLandingMain]_vars

\* gmae.py: the jump fires exactly when the timer is still positive in the
\* frame after the landing, i.e. when the landing came less than the
\* window minus one frame after the press
C23_BufferedJumpGmae ==
    [][(variant = "gmae" /\ last.kind = "play" /\ last.landed # << >>
          /\ last.pressed >= 0 /\ state = "PLAYING" /\ last'.kind = "play"
          /\ "J" \notin last'.keys)
         => (last'.before.vy = JUMP_VELOCITY
               <=> last.pressed + env.dt < JUMP_BUFFER_TIME_GMAE)]_vars

\* a landing after the window has run out makes no jump
C23_NoLateJump ==
    [][/\ (variant = "main" /\ LandedLate(last'))
            => last'.after.vy # JUMP_VELOCITY
       /\ (variant = "gmae" /\ LandedLate(last) /\ last'.kind = "play"
             /\ "J" \notin last'.keys)
            => last'.before.vy # JUMP_VELOCITY]_vars

\* gmae.py: a landing within 0.1 s of the buffered press, the timer of the
\* buffer already run out
C23_Witness ==
    /\ variant = "gmae" /\ state = "PLAYING"
    /\ LandedInWindow(last) /\ last.pressed > 0
    /\ player.jump_buffer <= 0

\* main.py: the buffered jump made at a landing; gmae.py: made in the
\* frame after it with no key held
C23_WitnessMain ==
    /\ variant = "main" /\ LandedInWindow(last) /\ last.pressed > 0
    /\ last.after.vy = JUMP_VELOCITY
C23_WitnessGmae ==
    /\ variant = "gmae" /\ last.kind = "play" /\ last.keys = {}
    /\ last.before.vy = JUMP_VELOCITY

\* a landing after the window
C23_WitnessLate == LandedLate(last) /\ last.after.vy = 0

(***************************************************************************)
(* C24: the full jump and the coyote window.                               *)
(***************************************************************************)
\* Player.control of the frame made a full jump
ControlJumped(f) ==
    f.kind = "play" /\ state = "PLAYING" /\ JumpSet(player, f.before)

\* the player left the ground without a jump at most COYOTE_TIME before
\* this call of Player.control: the frames are env.dt apart, and last.air
\* is 0 after the last frame on the ground
LeftWithinCoyote == last.air >= 0 /\ last.air <= COYOTE_TIME

\* a full jump is made on the ground or within the coyote window only
JumpOnlyGrounded ==
    ControlJumped(last') => (player.on_ground \/ LeftWithinCoyote)

\* a jump does not open the coyote window
JumpOpensNoCoyote ==
    (last'.kind = "play" /\ last'.after.vy < 0
       /\ (ControlJumped(last') \/ last'.after.vy = JUMP_VELOCITY))
        => player'.coyote <= 0

\* C24: in both variants, a full jump is made only on the ground or at
\* most 0.1 s after the player left it without jumping; a jump does not
\* open the coyote window; no second full jump is made before the next
\* landing
C24_FullJump ==
    [][JumpOnlyGrounded /\ JumpOpensNoCoyote /\ last'.jumps <= 1]_vars

\* the parts of C24 that do not measure the window
C24_OneJumpPerFlight == [][JumpOpensNoCoyote /\ last'.jumps <= 1]_vars

\* main.py alone
C24_FullJumpMain ==
    [][variant = "main"
         => (JumpOnlyGrounded /\ JumpOpensNoCoyote /\ last'.jumps <= 1)]_vars

\* gmae.py: the jump is made up to one frame after the window
C24_FullJumpGmae ==
    [][(variant = "gmae" /\ ControlJumped(last'))
         => (player.on_ground
               \/ (last.air >= 0 /\ last.air <= COYOTE_TIME + env.dt))]_vars

\* gmae.py: off the ground for more than 0.1 s, no jump made, and the
\* coyote timer still positive
C24_Witness ==
    /\ variant = "gmae" /\ state = "PLAYING"
    /\ ~player.on_ground /\ last.air > COYOTE_TIME
    /\ player.coyote > 0

\* a full jump made by Player.control, the first one since the landing
C24_WitnessJump ==
    /\ last.kind = "play" /\ "J" \in last.keys
    /\ last.before.vy = JUMP_VELOCITY /\ last.jumps = 1
    /\ last.after.coyote <= 0

(***************************************************************************)
(* C26: the quit key.                                                      *)
(***************************************************************************)
\* C26 as stated: in both variants, every frame with the quit key held
\* ends the frame loop, whatever other keys are held
C26_QuitAsStated == [][("ESC" \in last'.keys) => ~running']_vars

\* C26 (amended): a frame with the quit key held and the reset key not
\* held ends the frame loop, whatever other keys are held, and changes
\* nothing of the game; with both held the game is reset and the loop goes
\* on; no frame is processed once the loop has ended
C26_Quit ==
    [][/\ running
       /\ ("ESC" \in last'.keys /\ "RST" \notin last'.keys)
            => (~running' /\ last'.kind = "quit" /\ World' = World)
       /\ ("ESC" \in last'.keys /\ "RST" \in last'.keys)
            => (running' /\ last'.kind = "reset"
                  /\ World' = ResetGame(World))]_vars

\* the loop ended by the quit key with the jump key held as well, in the
\* middle of a session
C26_Witness ==
    /\ ~running /\ last.kind = "quit" /\ last.keys = {"J", "ESC"}
    /\ attempts > 1

\* quit and reset key together: the session is reset and goes on
C26_WitnessReset ==
    /\ running /\ last.kind = "reset" /\ last.keys = {"RST", "ESC"}
    /\ attempts > 1

(***************************************************************************)
(* C27: the player stays inside the level area.                            *)
(***************************************************************************)
InLevel(r) ==
    /\ 0 <= Left(r) /\ Right(r) <= WIDTH
    /\ 0 <= Top(r) /\ Bottom(r) <= HEIGHT

\* C27: in both variants, while the state is PLAYING the player's
\* rectangle lies inside the level area in every reachable state
C27_InLevel == state = "PLAYING" => InLevel(player.rect)

\* gmae.py alone
C27_InLevelGmae ==
    (variant = "gmae" /\ state = "PLAYING") => InLevel(player.rect)

\* main.py: the player beyond the left edge of the screen and below its
\* bottom, the session still PLAYING
C27_Witness ==
    /\ variant = "main" /\ state = "PLAYING"
    /\ Right(player.rect) < 0 /\ Top(player.rect) > HEIGHT

\* gmae.py: the player held at the left edge of the screen, still moving
\* to the left
C27_WitnessGmae ==
    /\ variant = "gmae" /\ state = "PLAYING"
    /\ Left(player.rect) = 0 /\ player.vx < 0 /\ "L" \in last.keys

(***************************************************************************)
(* C28: the grounded flag of the standing player.                          *)
(***************************************************************************)
\* a PLAYING frame with no key held that the player begins at rest, with
\* on_ground set and no jump buffered, standing on a rectangle of the
\* frame's collision list
RestFrame(f) ==
    /\ f.kind = "play" /\ f.keys = {} /\ state = "PLAYING"
    /\ player.on_ground /\ player.vx = 0 /\ player.vy = 0
    /\ player.jump_buffer <= 0
    /\ Supported(player, f.plats)

\* C28: in both variants, the player standing at rest on a platform with no
\* key held has on_ground set at the end of the frame
C28_StaysOnGround == [][RestFrame(last') => player'.on_ground]_vars

\* the standing player does not move and stays on the platform; on_ground
\* is cleared by every such frame
C28_StandsStill ==
    [][RestFrame(last')
         => /\ player'.rect = player.rect
            /\ Supported(player', last'.plats)
            /\ ~player'.on_ground]_vars

\* the player at rest on a platform at the end of a frame it began with
\* on_ground set, and on_ground is clear
C28_Witness ==
    /\ last.kind = "play" /\ last.keys = {} /\ state = "PLAYING"
    /\ last.before.on_ground /\ last.before.vx = 0 /\ last.before.vy = 0
    /\ last.before.jump_buffer <= 0
    /\ player.rect = last.before.rect
    /\ Supported(player, last.plats)
    /\ ~player.on_ground

(***************************************************************************)
(* C29: no overlap with the collision list after Player.physics.           *)
(***************************************************************************)
\* Player.physics on its own against the collision list of the level, from
\* positions at the corners of its rectangles: the player's rectangle up to
\* MaxNudge pixels (one frame's way sideways) and up to MaxDrop pixels (one
\* frame's way down) off the corner, overlapping nothing, at rest or at
\* full speed along each axis
MaxNudge == 7
MaxDrop == 18

Offsets(n) == {-n, 1 - n, -1, 0, 1, n - 1, n}

LevelRects(v) ==
    LET l == PlatformsForCollision(NewGame(v), WIDTH \div 2)
    IN  { l[i] : i \in 1..Len(l) }

\* the positions at the corners of the rectangle r
CornerPlayers(v, r) ==
    { [NewPlayer(v) EXCEPT
         !.rect.x = cx + dx,
         !.rect.y = cy + dy,
         !.vx = vx,
         !.vy = vy,
         !.on_ground = og,
         !.jump_buffer = jb] :
      cx \in {Left(r) - PlayerW(v), Right(r)},
      cy \in {Top(r) - PlayerH(v), Bottom(r)},
      dx \in Offsets(MaxNudge), dy \in Offsets(MaxDrop),
      vx \in {-MOVE_SPEED, -VS, 0, VS, MOVE_SPEED},
      vy \in {JUMP_VELOCITY, -GRAVITY, 0, TERMINAL_VELOCITY},
      og \in BOOLEAN,
      jb \in {0, IF v = "gmae" THEN 0 ELSE JUMP_BUFFER_TIME_MAIN - 17} }

\* the player p is inside the screen and overlaps none of the rectangles rs
FreeStart(p, rs) ==
    /\ p.on_ground => p.vy = 0
    /\ 0 <= Left(p.rect) /\ Right(p.rect) <= WIDTH
    /\ 0 <= Top(p.rect) /\ Bottom(p.rect) <= HEIGHT
    /\ \A r \in rs : ~CollideRect(p.rect, r)

InitLevel ==
    /\ variant \in Variants
    /\ running = TRUE
    /\ env \in { e \in Envs : e.dt = 17 }
    /\ inp = [script |-> 0, seg |-> 1, cnt |-> 0, free |-> 0]
    /\ last = NoFrame
    /\ query = NoQuery
    /\ LET W == NewGame(variant)
       IN  /\ state = W.state
           /\ attempts = W.attempts
           /\ wall = W.wall
           /\ fakes = W.fakes
           /\ traps = W.traps
           /\ spikes = W.spikes
           /\ stones = W.stones
           /\ door = W.door
           /\ camera = W.camera
           /\ particles = W.particles
    /\ \E rs \in { LevelRects(variant) } :
       \E r \in rs :
       \E p \in CornerPlayers(variant, r) :
          /\ FreeStart(p, rs)
          /\ player = p

NextLevel ==
    PhysicsStep(PlatformsForCollision(World, CenterX(player.rect)))

SpecLevel == InitLevel /\ [][NextLevel]_vars

\* the player's rectangle after Player.physics of the frame f overlaps a
\* rectangle of the list passed to it
OverlapAfter(f) ==
    \E i \in 1..Len(f.plats) : CollideRect(f.after.rect, f.plats[i])

\* C29: in both variants, at the end of every Player.physics step of a
\* frame the player's rectangle overlaps no rectangle of the collision
\* list passed to that step
C29_NoOverlap == PhysicsRan(last) => ~OverlapAfter(last)

\* a step that stopped the player sideways at a rectangle and landed it on
\* another one
C29_Witness ==
    /\ last.kind = "physics"
    /\ last.before.vx # 0 /\ last.after.vx = 0
    /\ last.landed # << >>
    /\ last.after.rect.x # last.before.rect.x
    /\ ~OverlapAfter(last)

\* the same in a frame of the game
C29_WitnessFrame ==
    /\ last.kind = "play"
    /\ last.before.vx # 0 /\ last.after.vx = 0
    /\ last.landed # << >>
    /\ ~OverlapAfter(last)

(***************************************************************************)
(* C30: the 800-pixel limit of the collision list of main.py               *)
(***************************************************************************)
\* the collision list of main.py Game.update without the distance tests:
\* every platform, every active fake platform that is not triggered and
\* the magic wall while it is alive
PlatformsUnculled(W) ==
    LET active(i) == W.fakes[i].active /\ ~W.fakes[i].triggered
        idx == SelectSeq([i \in 1..Len(W.fakes) |-> i], active)
    IN  Platforms(W.v)
        \o [k \in 1..Len(idx) |-> FakePlatformDefs(W.v)[idx[k]].rect]
        \o (IF W.wall.alive THEN << MagicWallRect >> ELSE << >>)

\* Game.update from Player.physics to the updates of the hazards, run on
\* the collision list plats (W1: the game after Player.control and the
\* updates of the fake platforms and the traps)
MovedWith(W1, plats, dtms, rnd) ==
    HazardUpdates([W1 EXCEPT
                     !.player = Physics(W1.v, W1.player, plats, dtms).p],
                  plats, CenterX(W1.player.rect), dtms, rnd)

\* the game of this frame when the collision list is built
AtCollisionList(pc) ==
    EarlyUpdates([World EXCEPT !.player = pc], CenterX(pc.rect), env.dt)

\* what the frame would have made of the player and of the stones with
\* the unculled list
UnculledOutcome(pc) ==
    MovedWith(AtCollisionList(pc), PlatformsUnculled(AtCollisionList(pc)),
              env.dt, env)

\* C30: in main.py every frame leaves the player (after Player.physics)
\* and the falling stones exactly where the same frame run on the
\* unculled collision list would have left them.
C30_SameAsUnculled ==
    [][ (variant = "main" /\ last'.kind = "play")
          => /\ UnculledOutcome(last'.before).player = last'.after
             /\ UnculledOutcome(last'.before).stones = stones' ]_vars

\* the part that holds: the player moves as with the unculled list
C30_PlayerSameAsUnculled ==
    [][ (variant = "main" /\ last'.kind = "play")
          => UnculledOutcome(last'.before).player = last'.after ]_vars

\* a falling stone that was updated in the frame, with the player inside
\* the screen, has sunk into a platform that was not in the frame's list
C30_Witness ==
    /\ variant = "main"
    /\ last.kind = "play"
    /\ 0 <= Left(last.before.rect)
    /\ Right(last.before.rect) <= WIDTH
    /\ \E i \in 1..Len(stones) :
          /\ stones[i].dropped
          /\ ~stones[i].settled
          /\ Near(stones[i].rect, CenterX(last.before.rect), 1000)
          /\ \E k \in 1..Len(Platforms(variant)) :
                /\ CollideRect(stones[i].rect, Platforms(variant)[k])
                /\ ~InList(Platforms(variant)[k], last.plats)

(***************************************************************************)
(* C25: the stone loop of Game.update on its own, frame after frame,       *)
(* while the player walks along the ground: to the right from the spawn    *)
(* point up to x = turn, back to the left down to x = stop, and rests.     *)
(* In main.py the ground is left at x <= -30 only.  The magic wall is      *)
(* broken in the walks that lead through it.                               *)
(***************************************************************************)
WalkStep == IntVel(MOVE_SPEED)

Turns == {60, 60 + 46 * WalkStep, 60 + 146 * WalkStep}
Stops(turn) == {60 - 13 * WalkStep, 60, turn}

\* the player after the frame of a walk (gmae.py keeps it in the screen)
Walk(v, p, plan) ==
    LET x1 == IF ~plan.back /\ p.rect.x < plan.turn THEN p.rect.x + WalkStep
              ELSE IF p.rect.x > plan.stop THEN p.rect.x - WalkStep
              ELSE p.rect.x
        p1 == [p EXCEPT !.rect.x = x1]
    IN  IF v = "gmae" THEN ClampRight(ClampLeft(p1)) ELSE p1

\* for stone in self.falling_stones: trigger_check and update (gmae.py:
\* with the player's centre after the physics step, on self.platforms;
\* main.py: within 1000 pixels of player_x, on the frame's collision list)
StoneLoop(v, sts, center_x, player_x, plats, dtms, rnd) ==
    [i \in 1..Len(sts) |->
        IF v = "gmae"
        THEN StoneUpdateGmae(TriggerCheck(sts[i], StoneDefs(v)[i], center_x),
                             dtms, Platforms(v), rnd).s
        ELSE IF Near(sts[i].rect, player_x, 1000)
        THEN StoneUpdateMain(TriggerCheck(sts[i], StoneDefs(v)[i], player_x),
                             dtms, plats, rnd).s
        ELSE sts[i]]

InitSettle ==
    /\ variant \in Variants
    /\ running = TRUE
    /\ env \in Envs
    /\ inp \in UNION {{[turn |-> t, stop |-> s, back |-> FALSE, tick |-> 0] :
                         s \in Stops(t)} : t \in Turns}
    /\ last = NoFrame
    /\ query = NoQuery
    /\ LET W == NewGame(variant)
       IN  /\ state = W.state
           /\ attempts = W.attempts
           /\ player = [W.player EXCEPT
                          !.rect.y = Top(Platforms(variant)[1]) - PlayerH(variant),
                          !.on_ground = TRUE]
           /\ wall = IF inp.turn > Left(MagicWallRect)
                     THEN MagicWallHit(MagicWallHit(W.wall)) ELSE W.wall
           /\ fakes = W.fakes
           /\ traps = W.traps
           /\ spikes = W.spikes
           /\ stones = W.stones
           /\ door = W.door
           /\ camera = W.camera
           /\ particles = W.particles

\* the walk after the frame; tick counts the passes of the loop of main()
\* (clock.tick), modulo 2
NextPlan(plan, x) ==
    [plan EXCEPT !.back = plan.back \/ x >= plan.turn,
                 !.tick = 1 - plan.tick]

StoneStep ==
    /\ running
    /\ player' = Walk(variant, player, inp)
    /\ inp' = NextPlan(inp, player.rect.x)
    /\ stones' = StoneLoop(variant, stones,
                           CenterX(Walk(variant, player, inp).rect),
                           CenterX(player.rect),
                           PlatformsForCollision(World, CenterX(player.rect)),
                           env.dt, env)
    /\ last' = [NoFrame EXCEPT !.kind = "stones"]
    /\ UNCHANGED << variant, running, state, attempts, wall, fakes, traps,
                    spikes, door, camera, particles, env, query >>

NextSettle == StoneStep

\* main(): while running, every pass of the loop ticks the clock and calls
\* Game.update
LoopPass == running /\ inp' = NextPlan(inp, player.rect.x)

SpecSettle == InitSettle /\ [][NextSettle]_vars /\ WF_inp(LoopPass)

\* C25: in both files every stone that has dropped is settled at some
\* later time, wherever the player walks and rests.
C25_EveryStoneSettles ==
    \A i \in 1..Len(StoneDefs("main")) :
        (i <= Len(stones) /\ stones[i].dropped)
            ~> (i <= Len(stones) /\ stones[i].settled)

\* the part that holds: in gmae.py every dropped stone settles
C25_EveryStoneSettlesGmae ==
    \A i \in 1..Len(StoneDefs("gmae")) :
        (variant = "gmae" /\ stones[i].dropped) ~> stones[i].settled

\* the part that holds: a settled stone is not moved again
C25_SettledStaysPut ==
    [][\A i \in 1..Len(stones) :
          stones[i].settled => stones'[i] = stones[i]]_vars

\* main.py: the player rests on the ground 1000 pixels or more from a
\* stone that has dropped and is not settled
C25_Witness ==
    /\ variant = "main"
    /\ last.kind = "stones"
    /\ player.rect.x = inp.stop
    /\ Supported(player, Platforms(variant))
    /\ \E i \in 1..Len(stones) :
          /\ stones[i].dropped
          /\ ~stones[i].settled
          /\ ~Near(stones[i].rect, CenterX(player.rect), 1000)

\* the same in the frames of the whole game (play-through
\* AwayFromStoneMain): the player has come to rest on the left end of the
\* ground while the third stone is in the air, out of the 1000 pixels
C25_WitnessPlay ==
    /\ variant = "main"
    /\ state = "PLAYING"
    /\ last.kind = "play"
    /\ last.keys = {}
    /\ last.before.rect = last.after.rect
    /\ Supported(player, Platforms(variant))
    /\ stones[3].dropped
    /\ ~stones[3].settled
    /\ ~Near(stones[3].rect, CenterX(player.rect), 1000)

====
